---- MODULE Spec2Model ----
(***************************************************************************)
(* Authentication and authorization core of the cyberex backend:          *)
(* POST /auth/login with account lockout (routes/auth.js, models/User),    *)
(* the JWT middleware verifyJwtToken and the RBAC middlewares requireRole, *)
(* requireAdmin, canModifyUser and preventSelfPrivilegeEscalation          *)
(* (middlewares/auth.js), over a store of users, roles and role            *)
(* assignments.  Time is counted in minutes.  Requests are handled one at  *)
(* a time, except the login and the role assignment of the concurrent      *)
(* handlers, which run from one of their awaits to the next.               *)
(***************************************************************************)
EXTENDS Integers, Sequences, FiniteSets, TLC

VARIABLES now, env, users, roles, userRoles, tasks, roleTasks, exercises, tokens, req,
          res, pending

vars == <<now, env, users, roles, userRoles, tasks, roleTasks, exercises, tokens, req, res,
          pending>>

-----------------------------------------------------------------------------
(* Bounds of the model *)

\* small clock steps are taken while now + TickStep <= MaxTime
MaxTime == 30
TickStep == 15
\* a wrong-password login is explored while the counter is below MaxFailed
MaxFailed == 6
\* number of issued tokens the clients keep
MaxTokens == 1

(* Policy constants of the program, in minutes *)
maxAttempts == 5
lockTime == 30
expiresIn == 1440
minPasswordLength == 6
maxPasswordLength == 128
swaggerExpiresIn == 1440

-----------------------------------------------------------------------------
(* Values *)

NoDate == -1
NoExercise == "null"
NoSecret == ""
NoUserId == "none"

SeededUserIds == {"u1", "u2"}
UserIds == SeededUserIds \cup {"u3"}
SeededRoleIds == {"r1", "r2", "r3"}
RoleIds == SeededRoleIds \cup {"r4"}
TaskIds == {"t1"}
AdminRoles == {"admin", "super_admin"}
ExerciseIds == {"ex1"}

\* bcrypt: a digest remembers what was hashed and how many times
bcryptHash(p) == [text |-> p.text, depth |-> p.depth + 1]
Plain(s) == [text |-> s, depth |-> 0]
bcryptCompare(password, digest) == digest = bcryptHash(Plain(password))

\* String.prototype.toLowerCase().trim() on the e-mail addresses of the model
toLowerCaseTrim(email) ==
    CASE email = "User@CyberX.com " -> "user@cyberx.com"
      [] email = "User@CyberX.com" -> "user@cyberx.com"
      [] OTHER -> email

\* express-validator isEmail / normalizeEmail on the e-mail addresses of the model
isEmail(email) == email \notin {"not-an-email", "User@CyberX.com "}
normalizeEmail(email) ==
    CASE email = "User@CyberX.com" -> "user@cyberx.com"
      [] OTHER -> email

\* the password has no upper limit
validateLogin_NoMaximum(email, password) ==
    /\ isEmail(email)
    /\ Len(password) >= minPasswordLength

validateLogin(email, password) ==
    /\ isEmail(email)
    /\ Len(password) >= minPasswordLength
    /\ Len(password) <= maxPasswordLength

-----------------------------------------------------------------------------
(* The store after seeding *)

NoUserRow ==
    [exists |-> FALSE, deleted |-> FALSE, email |-> "", password |-> Plain(""), name |-> "",
     exercise_id |-> NoExercise, isActive |-> FALSE, failedLoginAttempts |-> 0,
     lockedUntil |-> NoDate, lastLoginAt |-> NoDate]

SeedUsers ==
    [u \in UserIds |->
        IF u \notin SeededUserIds THEN NoUserRow ELSE
        [exists |-> TRUE,
         deleted |-> FALSE,
         email |-> IF u = "u1" THEN "admin@cyberx.com" ELSE "user@cyberx.com",
         password |-> bcryptHash(Plain(IF u = "u1" THEN "admin123" ELSE "user123")),
         name |-> IF u = "u1" THEN "Admin User" ELSE "Regular User",
         exercise_id |-> NoExercise,
         isActive |-> TRUE,
         failedLoginAttempts |-> 0,
         lockedUntil |-> NoDate,
         lastLoginAt |-> NoDate]]

NoRole == [exists |-> FALSE, deleted |-> FALSE, name |-> "", isActive |-> FALSE]

SeedRoles ==
    [r \in RoleIds |->
        IF r \notin SeededRoleIds THEN NoRole
        ELSE [exists |-> TRUE,
              deleted |-> FALSE,
              name |-> CASE r = "r1" -> "admin" [] r = "r2" -> "super_admin" [] OTHER -> "user",
              isActive |-> TRUE]]

\* tasks, their assignments to roles, and exercises: none is seeded
NoTask == [exists |-> FALSE, deleted |-> FALSE, title |-> ""]
NoExerciseRow == [exists |-> FALSE, deleted |-> FALSE, name |-> "", status |-> ""]

\* the rows of user_roles under one (user_id, role_id): copies counts them
NoRow == [exists |-> FALSE, isActive |-> FALSE, expiresAt |-> NoDate, copies |-> 0]
Row(active, expiresAt) ==
    [exists |-> TRUE, isActive |-> active, expiresAt |-> expiresAt, copies |-> 1]

SeedUserRoles ==
    [p \in UserIds \X RoleIds |->
        IF p = <<"u1", "r1">> \/ p = <<"u2", "r3">> THEN Row(TRUE, NoDate) ELSE NoRow]

NoToken == [userId |-> NoUserId, email |-> "", name |-> "", roles |-> {}, iat |-> NoDate,
            exp |-> NoDate, sig |-> NoSecret]
NoUser == [userId |-> NoUserId, email |-> "", name |-> "", roles |-> {},
           isActive |-> FALSE, exercise_id |-> NoExercise]
\* a request body: the names of its own properties and their values
NoValues == [isActive |-> FALSE, exercise_id |-> NoExercise, failedLoginAttempts |-> 0,
             lockedUntil |-> NoDate, name |-> "", newPassword |-> "", email |-> "",
             password |-> "", title |-> "", status |-> ""]
Body(fields, values) == [fields |-> fields, values |-> values]
EmptyBody == Body({}, NoValues)
hasOwnProperty(body, field) == field \in body.fields

\* the Authorization header by its words: "<scheme> <credentials>"; both are missing
\* when the header is, and the credentials when it has one word
Authorization(scheme, credentials) == [scheme |-> scheme, credentials |-> credentials]
NoAuthorization == Authorization("", NoToken)
Bearer(token) == Authorization("Bearer", token)

\* a request: id is :id of the route, param its second parameter (:roleId, :userId,
\* :taskId, or the id named in the body), permanent the query of a DELETE
NoReq == [route |-> "", chain |-> <<>>, authorization |-> NoAuthorization, id |-> NoUserId,
          param |-> "", permanent |-> FALSE,
          body |-> EmptyBody, user |-> NoUser, isAdmin |-> FALSE, isOwner |-> FALSE]
NoRes == [status |-> 0, error |-> "", message |-> "", code |-> "", lockedUntil |-> NoDate,
          token |-> NoToken, required |-> {}, current |-> {}, attemptedFields |-> {}]

Response(status, message, code) ==
    [NoRes EXCEPT !.status = status, !.message = message, !.code = code]

\* res.status(status).json({error, message, code})
Failure(status, error, message, code) ==
    [Response(status, message, code) EXCEPT !.error = error]

\* handlers that run concurrently, each between two of its awaits: what it has
\* loaded and what it was asked
Workers == {"w1", "w2"}
NoInstance ==
    [exists |-> FALSE, deleted |-> FALSE, email |-> "", password |-> Plain(""), name |-> "",
     exercise_id |-> NoExercise, isActive |-> FALSE, failedLoginAttempts |-> 0,
     lockedUntil |-> NoDate, lastLoginAt |-> NoDate]
Idle == [pc |-> "idle", userId |-> NoUserId, instance |-> NoInstance, password |-> "",
         roleId |-> "", taskId |-> "", expiresAt |-> NoDate]

\* process.env: the three secrets, each set or absent
Env(jwtSecret, jwtSwaggerSecret, swaggerSecret) ==
    [JWT_SECRET |-> jwtSecret, JWT_SWAGGER_SECRET |-> jwtSwaggerSecret,
     SWAGGER_SECRET |-> swaggerSecret]

EnvConfigs ==
    {Env(a, b, c) : a \in {"api-secret", NoSecret},
                    b \in {"swagger-jwt-secret", NoSecret},
                    c \in {"swagger-access-secret", NoSecret}}

\* the configurations with the documentation secrets in place
ApiEnvConfigs ==
    {e \in EnvConfigs : e.JWT_SWAGGER_SECRET # NoSecret /\ e.SWAGGER_SECRET # NoSecret}

Init ==
    /\ now = 0
    /\ env \in EnvConfigs
    /\ users = SeedUsers
    /\ roles = SeedRoles
    /\ userRoles = SeedUserRoles
    /\ tasks = [t \in TaskIds |-> NoTask]
    /\ roleTasks = [p \in RoleIds \X TaskIds |-> FALSE]
    /\ exercises = [e \in ExerciseIds |-> NoExerciseRow]
    /\ tokens = {}
    /\ req = NoReq
    /\ res = NoRes
    /\ pending = [w \in Workers |-> Idle]

InitApi == Init /\ env \in ApiEnvConfigs

-----------------------------------------------------------------------------
(* models/User *)

\* default (paranoid) scope: soft-deleted rows are not found
Visible(u) == users[u].exists /\ ~users[u].deleted

findByEmail(email) ==
    LET found == {u \in UserIds : Visible(u) /\ users[u].email = toLowerCaseTrim(email)}
    IN  IF found = {} THEN NoUserId ELSE CHOOSE u \in found : TRUE

\* the lookup with paranoid: false, which finds soft-deleted rows too
findByPk_Unscoped(id) == IF id \in UserIds /\ users[id].exists THEN id ELSE NoUserId

findByPk(id) == IF id \in UserIds /\ Visible(id) THEN id ELSE NoUserId

isLocked(user) == user.lockedUntil # NoDate /\ user.lockedUntil > now

validatePassword(user, password) == bcryptCompare(password, user.password)

\* the lock is set one failure too late
incrementFailedAttempts_LateLock(user) ==
    LET n == user.failedLoginAttempts + 1
    IN  [user EXCEPT !.failedLoginAttempts = n,
                     !.lockedUntil = IF n > maxAttempts THEN now + lockTime ELSE @]

\* a lock that has run out is forgotten and the count starts again
incrementFailedAttempts_FreshAfterExpiry(user) ==
    LET expired == user.lockedUntil # NoDate /\ user.lockedUntil <= now
        n == IF expired THEN 1 ELSE user.failedLoginAttempts + 1
    IN  [user EXCEPT !.failedLoginAttempts = n,
                     !.lockedUntil = IF n >= maxAttempts THEN now + lockTime
                                     ELSE IF expired THEN NoDate ELSE @]

incrementFailedAttempts(user) ==
    LET n == user.failedLoginAttempts + 1
    IN  [user EXCEPT !.failedLoginAttempts = n,
                     !.lockedUntil = IF n >= maxAttempts THEN now + lockTime ELSE @]

\* the reset forgets the counter
resetFailedAttempts_KeepCounter(user) ==
    [user EXCEPT !.lockedUntil = NoDate, !.lastLoginAt = now]

resetFailedAttempts(user) ==
    [user EXCEPT !.failedLoginAttempts = 0, !.lockedUntil = NoDate, !.lastLoginAt = now]

\* the include of routes/auth.js: roles through any assignment row, role active
loginRoleNames(u) ==
    {roles[r].name : r \in {q \in RoleIds :
        /\ userRoles[<<u, q>>].exists
        /\ roles[q].exists /\ ~roles[q].deleted /\ roles[q].isActive}}

jwtSign(u, roleNames, secret) ==
    [userId |-> u, email |-> users[u].email, name |-> users[u].name,
     roles |-> roleNames, iat |-> now,
     exp |-> now + expiresIn, sig |-> secret]

-----------------------------------------------------------------------------
(* POST /auth/login *)

\* the password is verified before the lock is looked at
LoginResult_PasswordFirst(user, password) ==
    IF ~validatePassword(users[user], password) THEN "badPassword"
    ELSE IF ~users[user].isActive THEN "inactive"
    ELSE IF env.JWT_SECRET = NoSecret THEN "noSecret"
    ELSE "ok"

\* a locked account still counts the failure
LoginResult_CountWhileLocked(user, password) ==
    IF isLocked(users[user]) /\ validatePassword(users[user], password) THEN "locked"
    ELSE IF ~users[user].isActive THEN "inactive"
    ELSE IF ~validatePassword(users[user], password) THEN "badPassword"
    ELSE IF env.JWT_SECRET = NoSecret THEN "noSecret"
    ELSE "ok"

\* the active flag is looked at before the lock
LoginResult_ActiveFirst(user, password) ==
    IF ~users[user].isActive THEN "inactive"
    ELSE IF isLocked(users[user]) THEN "locked"
    ELSE IF ~validatePassword(users[user], password) THEN "badPassword"
    ELSE IF env.JWT_SECRET = NoSecret THEN "noSecret"
    ELSE "ok"

\* the password is verified, and a failure counted, before the active flag is looked at
LoginResult_PasswordBeforeActive(user, password) ==
    IF isLocked(users[user]) THEN "locked"
    ELSE IF ~validatePassword(users[user], password) THEN "badPassword"
    ELSE IF ~users[user].isActive THEN "inactive"
    ELSE IF env.JWT_SECRET = NoSecret THEN "noSecret"
    ELSE "ok"

LoginResult(user, password) ==
    IF isLocked(users[user]) THEN "locked"
    ELSE IF ~users[user].isActive THEN "inactive"
    ELSE IF ~validatePassword(users[user], password) THEN "badPassword"
    ELSE IF env.JWT_SECRET = NoSecret THEN "noSecret"
    ELSE "ok"

Login(email, password) ==
    /\ req = NoReq
    /\ UNCHANGED <<now, env, tasks, roleTasks, exercises, pending, roles, userRoles, req>>
    /\ IF ~validateLogin(email, password)
       THEN /\ res' = Failure(400, "Validation Error", "Invalid input data", "")
            /\ UNCHANGED <<users, tokens>>
       ELSE LET user == findByEmail(normalizeEmail(email)) IN
            IF user = NoUserId
            THEN /\ res' = Failure(401, "Authentication Failed", "Invalid email or password", "")
                 /\ UNCHANGED <<users, tokens>>
            ELSE LET result == LoginResult(user, password) IN
              CASE result = "locked" ->
                     /\ res' = [Failure(423, "Account Locked",
                                        "Account is temporarily locked due to multiple failed login attempts", "")
                                    EXCEPT !.lockedUntil = users[user].lockedUntil]
                     /\ UNCHANGED <<users, tokens>>
                [] result = "inactive" ->
                     /\ res' = Failure(401, "Authentication Failed", "Account is inactive", "")
                     /\ UNCHANGED <<users, tokens>>
                [] result = "badPassword" ->
                     /\ users[user].failedLoginAttempts < MaxFailed
                     /\ users' = [users EXCEPT ![user] = incrementFailedAttempts(@)]
                     /\ res' = Failure(401, "Authentication Failed", "Invalid email or password", "")
                     /\ UNCHANGED tokens
                [] result = "noSecret" ->
                     /\ users' = [users EXCEPT ![user] = resetFailedAttempts(@)]
                     /\ res' = Failure(500, "Internal Server Error",
                                     "Authentication service not properly configured", "")
                     /\ UNCHANGED tokens
                [] OTHER ->
                     LET token == jwtSign(user, loginRoleNames(user), env.JWT_SECRET) IN
                     /\ users' = [users EXCEPT ![user] = resetFailedAttempts(@)]
                     /\ res' = [Response(200, "Login successful", "") EXCEPT !.token = token]
                     /\ tokens' = IF Cardinality(tokens) < MaxTokens
                                  THEN tokens \cup {token} ELSE tokens

-----------------------------------------------------------------------------
(* POST /auth/login, handled concurrently: the handler runs from one await  *)
(* to the next, and other handlers run in between                           *)

\* instance.save(): the attributes set to another value since the instance was
\* loaded are written to the row, the others are left as the row has them
save(stored, loaded, instance) ==
    [stored EXCEPT
        !.failedLoginAttempts = IF instance.failedLoginAttempts # loaded.failedLoginAttempts
                                THEN instance.failedLoginAttempts ELSE @,
        !.lockedUntil = IF instance.lockedUntil # loaded.lockedUntil
                        THEN instance.lockedUntil ELSE @,
        !.lastLoginAt = IF instance.lastLoginAt # loaded.lastLoginAt
                        THEN instance.lastLoginAt ELSE @]

\* up to await user.validatePassword: validation, lookup, lock and active checks
LoginFind(w, email, password) ==
    /\ pending[w].pc = "idle"
    /\ UNCHANGED <<now, env, tasks, roleTasks, exercises, users, roles, userRoles, tokens, req>>
    /\ IF ~validateLogin(email, password)
       THEN /\ res' = Failure(400, "Validation Error", "Invalid input data", "")
            /\ UNCHANGED pending
       ELSE LET user == findByEmail(normalizeEmail(email)) IN
            IF user = NoUserId
            THEN /\ res' = Failure(401, "Authentication Failed", "Invalid email or password", "")
                 /\ UNCHANGED pending
            ELSE IF isLocked(users[user])
            THEN /\ res' = [Failure(423, "Account Locked",
                                    "Account is temporarily locked due to multiple failed login attempts", "")
                               EXCEPT !.lockedUntil = users[user].lockedUntil]
                 /\ UNCHANGED pending
            ELSE IF ~users[user].isActive
            THEN /\ res' = Failure(401, "Authentication Failed", "Account is inactive", "")
                 /\ UNCHANGED pending
            ELSE /\ validatePassword(users[user], password)
                    \/ users[user].failedLoginAttempts < MaxFailed
                 /\ pending' = [pending EXCEPT ![w] =
                                   [Idle EXCEPT !.pc = "validatePassword", !.userId = user,
                                                !.instance = users[user],
                                                !.password = password]]
                 /\ UNCHANGED res

\* from the password's verification to the save of the loaded instance
LoginSave(w) ==
    LET user == pending[w].userId
        loaded == pending[w].instance
    IN  /\ pending[w].pc = "validatePassword"
        /\ UNCHANGED <<now, env, tasks, roleTasks, exercises, roles, userRoles, tokens, req>>
        /\ IF ~validatePassword(loaded, pending[w].password)
           THEN /\ users' = [users EXCEPT ![user] =
                                save(@, loaded, incrementFailedAttempts(loaded))]
                /\ res' = Failure(401, "Authentication Failed", "Invalid email or password", "")
                /\ pending' = [pending EXCEPT ![w] = Idle]
           ELSE /\ users' = [users EXCEPT ![user] =
                                save(@, loaded, resetFailedAttempts(loaded))]
                /\ pending' = [pending EXCEPT ![w].pc = "findByPk"]
                /\ UNCHANGED res

\* the roles are loaded and the token is signed
LoginToken(w) ==
    LET user == pending[w].userId IN
    /\ pending[w].pc = "findByPk"
    /\ UNCHANGED <<now, env, tasks, roleTasks, exercises, users, roles, userRoles, req>>
    /\ pending' = [pending EXCEPT ![w] = Idle]
    /\ IF env.JWT_SECRET = NoSecret
       THEN /\ res' = Failure(500, "Internal Server Error",
                              "Authentication service not properly configured", "")
            /\ UNCHANGED tokens
       ELSE LET token == jwtSign(user, loginRoleNames(user), env.JWT_SECRET) IN
            /\ res' = [Response(200, "Login successful", "") EXCEPT !.token = token]
            /\ tokens' = IF Cardinality(tokens) < MaxTokens
                         THEN tokens \cup {token} ELSE tokens

-----------------------------------------------------------------------------
(* POST /swagger/token *)

\* jwt.sign of the documentation payload; its role and purpose members are read
\* by nobody
swaggerJwtSign(secret) ==
    [userId |-> "swagger-user", email |-> "swagger@cyberx.com", name |-> "",
     roles |-> {}, iat |-> now, exp |-> now + swaggerExpiresIn, sig |-> secret]

\* any secret the client sends is taken
SwaggerTokenResult_AnySecret(swaggerSecret) ==
    IF swaggerSecret = NoSecret THEN "missing"
    ELSE IF env.SWAGGER_SECRET = NoSecret THEN "noSwaggerSecret"
    ELSE IF env.JWT_SWAGGER_SECRET = NoSecret THEN "noJwtSecret"
    ELSE "ok"

\* the checks of the handler, in the order the code makes them
SwaggerTokenResult(swaggerSecret) ==
    IF swaggerSecret = NoSecret THEN "missing"
    ELSE IF env.SWAGGER_SECRET = NoSecret THEN "noSwaggerSecret"
    ELSE IF swaggerSecret # env.SWAGGER_SECRET THEN "invalid"
    ELSE IF env.JWT_SWAGGER_SECRET = NoSecret THEN "noJwtSecret"
    ELSE "ok"

SwaggerToken(swaggerSecret) ==
    /\ req = NoReq
    /\ UNCHANGED <<now, env, tasks, roleTasks, exercises, pending, users, roles, userRoles, req>>
    /\ LET result == SwaggerTokenResult(swaggerSecret) IN
       CASE result = "missing" ->
              /\ res' = Failure(401, "Unauthorized", "Swagger secret is required", "")
              /\ UNCHANGED tokens
         [] result = "noSwaggerSecret" ->
              /\ res' = Failure(500, "Internal Server Error",
                              "Swagger authentication not configured", "")
              /\ UNCHANGED tokens
         [] result = "invalid" ->
              /\ res' = Failure(401, "Unauthorized", "Invalid swagger secret", "")
              /\ UNCHANGED tokens
         [] result = "noJwtSecret" ->
              /\ res' = Failure(500, "Internal Server Error", "JWT configuration not set up", "")
              /\ UNCHANGED tokens
         [] OTHER ->
              LET token == swaggerJwtSign(env.JWT_SWAGGER_SECRET) IN
              /\ res' = [Response(200, "JWT token generated successfully", "")
                             EXCEPT !.token = token]
              /\ tokens' = IF Cardinality(tokens) < MaxTokens
                           THEN tokens \cup {token} ELSE tokens

-----------------------------------------------------------------------------
(* jsonwebtoken *)

\* an expired token is reported as an invalid one
jwtVerify_OneKind(token, secret) ==
    IF token.sig # secret THEN "JsonWebTokenError"
    ELSE IF now >= token.exp THEN "JsonWebTokenError"
    ELSE "ok"

\* jwt.verify: the signature is checked before the expiry
jwtVerify(token, secret) ==
    IF token.sig # secret THEN "JsonWebTokenError"
    ELSE IF now >= token.exp THEN "TokenExpiredError"
    ELSE "ok"

-----------------------------------------------------------------------------
(* middlewares/auth.js: each middleware maps the request to an outcome, which *)
(* either calls next with the request as it left it, or sends a response     *)

\* authHeader && authHeader.split(' ')[1]: the second word, whatever the first is
bearerToken(authorization) == authorization.credentials

\* the response is sent and next is called as well
Send_AndNext(r, response) == [next |-> TRUE, req |-> r, res |-> response]

\* what a middleware does with a request: it calls next(), or it sends a response
CallNext(r) == [next |-> TRUE, req |-> r, res |-> NoRes]
Send(r, response) == [next |-> FALSE, req |-> r, res |-> response]

\* the assignment's own isActive is not looked at
currentRoleNames_AnyRow(u) ==
    {roles[r].name : r \in {q \in RoleIds :
        /\ userRoles[<<u, q>>].exists
        /\ roles[q].exists /\ ~roles[q].deleted /\ roles[q].isActive}}

\* the include of verifyJwtToken: assignment row active, role active
currentRoleNames(u) ==
    {roles[r].name : r \in {q \in RoleIds :
        /\ userRoles[<<u, q>>].exists /\ userRoles[<<u, q>>].isActive
        /\ roles[q].exists /\ ~roles[q].deleted /\ roles[q].isActive}}

\* the principal is taken from the token's claims and the store is not read
verifyJwtToken_TokenClaims(r) ==
    LET token == bearerToken(r.authorization) IN
    IF token = NoToken
    THEN Send(r, Failure(401, "Unauthorized", "Access token is missing", "UNAUTHORIZED"))
    ELSE IF env.JWT_SECRET = NoSecret
    THEN Send(r, Failure(500, "Internal Server Error", "JWT configuration not set up", "CONFIG_ERROR"))
    ELSE IF jwtVerify(token, env.JWT_SECRET) # "ok"
    THEN Send(r, Failure(403, "Forbidden", "Invalid or expired token", "FORBIDDEN"))
    ELSE CallNext([r EXCEPT !.user =
                     [userId |-> token.userId,
                      email |-> token.email,
                      name |-> token.name,
                      roles |-> token.roles,
                      isActive |-> TRUE,
                      exercise_id |-> NoExercise]])

verifyJwtToken(r) ==
    LET token == bearerToken(r.authorization) IN
    IF token = NoToken
    THEN Send(r, Failure(401, "Unauthorized", "Access token is missing", "UNAUTHORIZED"))
    ELSE IF env.JWT_SECRET = NoSecret
    THEN Send(r, Failure(500, "Internal Server Error", "JWT configuration not set up", "CONFIG_ERROR"))
    ELSE LET verdict == jwtVerify(token, env.JWT_SECRET) IN
    IF verdict = "JsonWebTokenError"
    THEN Send(r, Failure(403, "Forbidden", "Invalid token", "INVALID_TOKEN"))
    ELSE IF verdict = "TokenExpiredError"
    THEN Send(r, Failure(403, "Forbidden", "Token has expired", "TOKEN_EXPIRED"))
    ELSE LET user == findByPk(token.userId) IN
    IF user = NoUserId \/ ~users[user].isActive
    THEN Send(r, Failure(403, "Forbidden", "User account is inactive or not found", "INACTIVE_USER"))
    ELSE IF isLocked(users[user])
    THEN Send(r, [Failure(423, "Account Locked", "User account is temporarily locked", "ACCOUNT_LOCKED")
                     EXCEPT !.lockedUntil = users[user].lockedUntil])
    ELSE CallNext([r EXCEPT !.user =
                     [userId |-> user,
                      email |-> users[user].email,
                      name |-> users[user].name,
                      roles |-> currentRoleNames(user),
                      isActive |-> users[user].isActive,
                      exercise_id |-> users[user].exercise_id]])

\* process.env.JWT_SWAGGER_SECRET || process.env.JWT_SECRET
swaggerSecretOf(e) ==
    IF e.JWT_SWAGGER_SECRET # NoSecret THEN e.JWT_SWAGGER_SECRET ELSE e.JWT_SECRET

\* the decoded token becomes req.user; the store is not read
verifySwaggerToken(r) ==
    LET token == bearerToken(r.authorization)
        secret == swaggerSecretOf(env)
    IN
    IF token = NoToken
    THEN Send(r, Failure(401, "Unauthorized", "Access token is missing", "UNAUTHORIZED"))
    ELSE IF secret = NoSecret
    THEN Send(r, Failure(500, "Internal Server Error", "JWT configuration not set up", "CONFIG_ERROR"))
    ELSE IF jwtVerify(token, secret) # "ok"
    THEN Send(r, Failure(403, "Forbidden", "Invalid or expired token", "FORBIDDEN"))
    ELSE CallNext([r EXCEPT !.user =
                     [userId |-> token.userId,
                      email |-> token.email,
                      name |-> token.name,
                      roles |-> token.roles,
                      isActive |-> FALSE,
                      exercise_id |-> NoExercise]])

\* every required role is demanded instead of any
hasRequiredRole_Every(requiredRoles, userRoleNames) ==
    \A role \in requiredRoles : role \in userRoleNames

hasRequiredRole(requiredRoles, userRoleNames) ==
    \E role \in requiredRoles : role \in userRoleNames

requireRole(requiredRoles, r) ==
    IF r.user = NoUser
    THEN Send(r, Failure(401, "Unauthorized", "Authentication required", "NO_AUTH"))
    ELSE IF ~hasRequiredRole(requiredRoles, r.user.roles)
    THEN Send(r, [Failure(403, "Forbidden", "Insufficient permissions", "INSUFFICIENT_PERMISSIONS")
                     EXCEPT !.required = requiredRoles, !.current = r.user.roles])
    ELSE CallNext(r)

\* super_admin is forgotten
isAdminRoles_AdminOnly(userRoleNames) == "admin" \in userRoleNames

isAdminRoles(userRoleNames) == "admin" \in userRoleNames \/ "super_admin" \in userRoleNames

canModifyUser(r) ==
    IF r.user = NoUser
    THEN Send(r, Failure(401, "Unauthorized", "Authentication required", "NO_AUTH"))
    ELSE LET isAdmin == isAdminRoles(r.user.roles)
             isOwner == r.user.userId = r.id
         IN  IF ~isAdmin /\ ~isOwner
             THEN Send(r, Failure(403, "Forbidden",
                      "You can only modify your own account or you need admin privileges",
                      "INSUFFICIENT_PERMISSIONS"))
             ELSE CallNext([r EXCEPT !.isAdmin = isAdmin, !.isOwner = isOwner])

\* lockedUntil is left out of the list
restrictedFields_NoLock == {"isActive", "exercise_id", "failedLoginAttempts"}

restrictedFields == {"isActive", "exercise_id", "failedLoginAttempts", "lockedUntil"}

preventSelfPrivilegeEscalation(r) ==
    IF r.user = NoUser
    THEN Send(r, Failure(401, "Unauthorized", "Authentication required", ""))
    ELSE LET isAdmin == isAdminRoles(r.user.roles)
             attemptedFields == {field \in restrictedFields : hasOwnProperty(r.body, field)}
         IN  IF r.user.userId = r.id /\ ~isAdmin /\ attemptedFields # {}
             THEN Send(r, [Failure(403, "Forbidden", "You cannot modify these fields on your own account",
                                    "RESTRICTED_SELF_MODIFICATION")
                              EXCEPT !.attemptedFields = attemptedFields])
             ELSE CallNext(r)

-----------------------------------------------------------------------------
(* Services and model methods that change the store *)

\* Model.update(values): the own properties of the body overwrite the row
update(user, body) ==
    [user EXCEPT
        !.isActive = IF hasOwnProperty(body, "isActive") THEN body.values.isActive ELSE @,
        !.exercise_id = IF hasOwnProperty(body, "exercise_id") THEN body.values.exercise_id ELSE @,
        !.failedLoginAttempts = IF hasOwnProperty(body, "failedLoginAttempts")
                                THEN body.values.failedLoginAttempts ELSE @,
        !.lockedUntil = IF hasOwnProperty(body, "lockedUntil") THEN body.values.lockedUntil ELSE @,
        !.name = IF hasOwnProperty(body, "name") THEN body.values.name ELSE @]

\* User.updateUser: [ok, users]
updateUser(id, body) ==
    IF findByPk(id) = NoUserId
    THEN [ok |-> FALSE, users |-> users]
    ELSE [ok |-> TRUE, users |-> [users EXCEPT ![id] = update(@, body)]]

\* UserService.updateUser(id, updateData, updatedBy, isAdmin): without isAdmin the
\* restricted fields are deleted from the data before the row is updated: [ok, users]
UserService_updateUser(id, body, isAdmin) ==
    LET processedData ==
            IF isAdmin THEN body
            ELSE Body(body.fields \ {"isActive", "exercise_id", "failedLoginAttempts",
                                      "lockedUntil"}, body.values)
    IN  IF findByPk(id) = NoUserId
        THEN [ok |-> FALSE, users |-> users]
        ELSE [ok |-> TRUE, users |-> [users EXCEPT ![id] = update(@, processedData)]]

\* UserService.changePassword: the beforeUpdate hook hashes the changed password,
\* and the lock is lifted: [ok, users]
UserService_changePassword(id, newPassword) ==
    IF Len(newPassword) < minPasswordLength \/ Len(newPassword) > maxPasswordLength
          \/ findByPk(id) = NoUserId
    THEN [ok |-> FALSE, users |-> users]
    ELSE [ok |-> TRUE,
          users |-> [users EXCEPT ![id].password = bcryptHash(Plain(newPassword)),
                                  ![id].failedLoginAttempts = 0,
                                  ![id].lockedUntil = NoDate]]

deactivateUser(id) == updateUser(id, Body({"isActive"}, [NoValues EXCEPT !.isActive = FALSE]))

activateUser(id) == updateUser(id, Body({"isActive"}, [NoValues EXCEPT !.isActive = TRUE]))

DeletedUser ==
    [exists |-> FALSE, deleted |-> FALSE, email |-> "", password |-> Plain(""), name |-> "",
     exercise_id |-> NoExercise, isActive |-> FALSE, failedLoginAttempts |-> 0,
     lockedUntil |-> NoDate, lastLoginAt |-> NoDate]

\* the soft delete also writes isActive
softDelete_Deactivates(row) == [row EXCEPT !.deleted = TRUE, !.isActive = FALSE]

\* Model.destroy() of a paranoid model sets deletedAt, Model.restore() clears it
softDelete(row) == [row EXCEPT !.deleted = TRUE]
restore(row) == [row EXCEPT !.deleted = FALSE]

\* UserRole.destroy({where: {user_id}})
destroyUserRows(ur, id) ==
    [p \in UserIds \X RoleIds |-> IF p[1] = id THEN NoRow ELSE ur[p]]

\* UserService.deleteUser: the user is looked up with paranoid: false; the soft delete
\* sets the marker, the permanent one removes the user's assignments and the row:
\* [ok, users, userRoles]
UserService_deleteUser(id, permanent) ==
    IF ~(id \in UserIds /\ users[id].exists)
    THEN [ok |-> FALSE, users |-> users, userRoles |-> userRoles]
    ELSE IF permanent
    THEN [ok |-> TRUE, users |-> [users EXCEPT ![id] = DeletedUser],
          userRoles |-> destroyUserRows(userRoles, id)]
    ELSE [ok |-> TRUE, users |-> [users EXCEPT ![id] = softDelete(@)],
          userRoles |-> userRoles]

\* UserService.restoreUser: a user that is not deleted is returned as it is
UserService_restoreUser(id) ==
    IF ~(id \in UserIds /\ users[id].exists) THEN [ok |-> FALSE, users |-> users]
    ELSE IF ~users[id].deleted THEN [ok |-> TRUE, users |-> users]
    ELSE [ok |-> TRUE, users |-> [users EXCEPT ![id] = restore(@)]]

DeleteUser(id, permanent) ==
    /\ req = NoReq
    /\ UserService_deleteUser(id, permanent).ok
    /\ users' = UserService_deleteUser(id, permanent).users
    /\ userRoles' = UserService_deleteUser(id, permanent).userRoles
    /\ UNCHANGED <<now, env, tasks, roleTasks, exercises, pending, roles, tokens, req, res>>

\* UserService.deactivateUser, UserService.activateUser
DeactivateUser(id) ==
    /\ req = NoReq
    /\ deactivateUser(id).ok
    /\ users' = deactivateUser(id).users
    /\ UNCHANGED <<now, env, tasks, roleTasks, exercises, pending, roles, userRoles, tokens, req, res>>

ActivateUser(id) ==
    /\ req = NoReq
    /\ activateUser(id).ok
    /\ users' = activateUser(id).users
    /\ UNCHANGED <<now, env, tasks, roleTasks, exercises, pending, roles, userRoles, tokens, req, res>>

RestoreUser(id) ==
    /\ req = NoReq
    /\ UserService_restoreUser(id).ok
    /\ users' = UserService_restoreUser(id).users
    /\ UNCHANGED <<now, env, tasks, roleTasks, exercises, pending, roles, userRoles, tokens, req, res>>

\* the table takes a second row under a key it already holds
create_NoPrimaryKey(table, key, row) ==
    [ok |-> TRUE,
     table |-> [table EXCEPT ![key] = [row EXCEPT !.copies = table[key].copies + 1]]]

\* UserRole.create: user_id and role_id are the primary key, and the insert of a
\* key the table holds is refused (SequelizeUniqueConstraintError): [ok, table]
create(table, key, row) ==
    IF table[key].exists
    THEN [ok |-> FALSE, table |-> table]
    ELSE [ok |-> TRUE, table |-> [table EXCEPT ![key] = row]]

\* the answers of POST /:id/roles (the messages without their accents)
RoleAssigned == Response(200, "Role assigned successfully", "")
AlreadyAssigned == Failure(400, "Bad Request", "Ce role est deja assigne a cet utilisateur", "")
UniqueConstraintError == Failure(400, "Bad Request", "Validation error", "")
\* user_id and role_id reference users.id and roles.id: a row for a missing user or
\* role is refused
ForeignKeyConstraintError ==
    Failure(400, "Bad Request", "violates foreign key constraint", "")

\* POST /:id/roles with UserRoleService.assignRole: an existing row, active or
\* not, is an error; otherwise the row is created
AssignRole(userId, roleId, expiresAt) ==
    /\ req = NoReq
    /\ users[userId].exists /\ roles[roleId].exists
    /\ IF userRoles[<<userId, roleId>>].exists
       THEN /\ res' = AlreadyAssigned
            /\ UNCHANGED userRoles
       ELSE LET result == create(userRoles, <<userId, roleId>>, Row(TRUE, expiresAt)) IN
            /\ userRoles' = result.table
            /\ res' = IF result.ok THEN RoleAssigned ELSE UniqueConstraintError
    /\ UNCHANGED <<now, env, tasks, roleTasks, exercises, pending, users, roles, tokens, req>>

\* the same handler run concurrently: up to the end of await UserRole.findOne
AssignFind(w, userId, roleId, expiresAt) ==
    /\ pending[w].pc = "idle"
    /\ users[userId].exists /\ roles[roleId].exists
    /\ UNCHANGED <<now, env, tasks, roleTasks, exercises, users, roles, userRoles, tokens, req>>
    /\ IF userRoles[<<userId, roleId>>].exists
       THEN /\ res' = AlreadyAssigned
            /\ UNCHANGED pending
       ELSE /\ pending' = [pending EXCEPT ![w] =
                              [Idle EXCEPT !.pc = "create", !.userId = userId,
                                           !.roleId = roleId, !.expiresAt = expiresAt]]
            /\ UNCHANGED res

\* await UserRole.create and the answer
AssignCreate(w) ==
    LET key == <<pending[w].userId, pending[w].roleId>>
        referenced == users[key[1]].exists /\ roles[key[2]].exists
        result == IF referenced THEN create(userRoles, key, Row(TRUE, pending[w].expiresAt))
                  ELSE [ok |-> FALSE, table |-> userRoles]
    IN  /\ pending[w].pc = "create"
        /\ userRoles' = result.table
        /\ res' = IF result.ok THEN RoleAssigned
                  ELSE IF referenced THEN UniqueConstraintError ELSE ForeignKeyConstraintError
        /\ pending' = [pending EXCEPT ![w] = Idle]
        /\ UNCHANGED <<now, env, tasks, roleTasks, exercises, users, roles, tokens, req>>

\* UserRole.revokeRole
RevokeRole(userId, roleId) ==
    /\ req = NoReq
    /\ userRoles[<<userId, roleId>>].exists /\ userRoles[<<userId, roleId>>].isActive
    /\ userRoles' = [userRoles EXCEPT ![<<userId, roleId>>].isActive = FALSE]
    /\ UNCHANGED <<now, env, tasks, roleTasks, exercises, pending, users, roles, tokens, req, res>>

\* RoleService.updateRole with {isActive}
UpdateRole(roleId, isActive) ==
    /\ req = NoReq
    /\ roles[roleId].exists /\ ~roles[roleId].deleted
    /\ roles[roleId].isActive # isActive
    /\ roles' = [roles EXCEPT ![roleId].isActive = isActive]
    /\ UNCHANGED <<now, env, tasks, roleTasks, exercises, pending, users, userRoles, tokens, req, res>>

-----------------------------------------------------------------------------
(* RoleService: each operation returns what it answers and the tables as it  *)
(* leaves them                                                               *)

\* String.trim and String.toLowerCase on the names of the model
trim(name) ==
    CASE name = " Root " -> "Root"
      [] name = " root " -> "root"
      [] OTHER -> name

toLowerCase(name) ==
    CASE name = "ADMIN" -> "admin"
      [] name = "Root" -> "root"
      [] name = " Root " -> " root "
      [] name = "Super_Admin" -> "super_admin"
      [] OTHER -> name

\* _validateRoleData: a name, when given, has 2 to 50 characters; those of the model
\* are made of letters and underscores
validRoleName(name) == Len(trim(name)) \in 2..50

reservedNames == {"super_admin", "admin", "system", "root"}
protectedRoles == {"super_admin", "admin"}

Returned(message, r, ur) ==
    [ok |-> TRUE, message |-> message, roles |-> r, userRoles |-> ur]
Thrown(message) ==
    [ok |-> FALSE, message |-> message, roles |-> roles, userRoles |-> userRoles]

\* Role.findOne({where: {name}}) and Role.findByPk(id) leave soft-deleted rows out
roleNamed(name, except) ==
    {r \in RoleIds \ except : roles[r].exists /\ ~roles[r].deleted /\ roles[r].name = name}
roleFindByPk(id, paranoid) ==
    id \in RoleIds /\ roles[id].exists /\ (paranoid => ~roles[id].deleted)

\* the unique index on roles.name covers the soft-deleted rows too
nameTaken(name, except) ==
    \E r \in RoleIds \ except : roles[r].exists /\ roles[r].name = name

RoleService_createRole(name, isActive) ==
    LET normalized == toLowerCase(trim(name))
        free == {r \in RoleIds : ~roles[r].exists}
        id == CHOOSE r \in free : TRUE
    IN  IF name = "" THEN Thrown("Validation failed: Role name is required")
        ELSE IF ~validRoleName(name) THEN Thrown("Validation failed")
        ELSE IF roleNamed(normalized, {}) # {} THEN Thrown("A role with this name already exists")
        ELSE IF normalized \in reservedNames
        THEN Thrown("Role name is reserved and cannot be used")
        ELSE IF nameTaken(normalized, {}) THEN Thrown("Validation error")
        ELSE Returned("Role created",
                      [roles EXCEPT ![id] = [exists |-> TRUE, deleted |-> FALSE,
                                             name |-> normalized, isActive |-> isActive]],
                      userRoles)

\* updateData: the names of its own properties and their values
RoleData(fields, name, isActive) == [fields |-> fields, name |-> name, isActive |-> isActive]

RoleService_updateRole(id, data) ==
    LET role == roles[id]
        renamed == /\ "name" \in data.fields /\ data.name # ""
                   /\ toLowerCase(trim(data.name)) # toLowerCase(role.name)
        written == IF ~("name" \in data.fields) THEN role.name
                   ELSE IF renamed THEN toLowerCase(trim(data.name))
                   ELSE data.name
    IN  IF ~roleFindByPk(id, TRUE) THEN Thrown("Role not found")
        ELSE IF "name" \in data.fields /\ data.name # "" /\ ~validRoleName(data.name)
        THEN Thrown("Validation failed")
        ELSE IF renamed /\ roleNamed(toLowerCase(trim(data.name)), {id}) # {}
        THEN Thrown("A role with this name already exists")
        ELSE IF renamed /\ toLowerCase(trim(data.name)) \in reservedNames
        THEN Thrown("Role name is reserved and cannot be used")
        ELSE IF written = "" \/ nameTaken(written, {id}) THEN Thrown("Validation error")
        ELSE Returned("Role updated",
                      [roles EXCEPT ![id].name = written,
                                    ![id].isActive = IF "isActive" \in data.fields
                                                     THEN data.isActive ELSE @],
                      userRoles)

RoleService_activateRole(id) ==
    IF ~roleFindByPk(id, TRUE) THEN Thrown("Role not found")
    ELSE IF roles[id].isActive THEN Returned("Role is already active", roles, userRoles)
    ELSE Returned("Role activated", [roles EXCEPT ![id].isActive = TRUE], userRoles)

RoleService_deactivateRole(id) ==
    IF ~roleFindByPk(id, TRUE) THEN Thrown("Role not found")
    ELSE IF ~roles[id].isActive THEN Returned("Role is already inactive", roles, userRoles)
    ELSE IF toLowerCase(roles[id].name) \in protectedRoles
    THEN Thrown("Cannot deactivate protected system role")
    ELSE Returned("Role deactivated", [roles EXCEPT ![id].isActive = FALSE], userRoles)

\* UserRole.count({where: {role_id, isActive: true}})
userCount(id) == Cardinality({u \in UserIds : userRoles[<<u, id>>].exists
                                               /\ userRoles[<<u, id>>].isActive})

\* UserRole.destroy({where: {role_id}})
destroyRoleRows(ur, id) ==
    [p \in UserIds \X RoleIds |-> IF p[2] = id THEN NoRow ELSE ur[p]]

RoleService_deleteRole(id, permanent) ==
    IF ~roleFindByPk(id, FALSE) THEN Thrown("Role not found")
    ELSE IF toLowerCase(roles[id].name) \in protectedRoles
    THEN Thrown("Cannot delete protected system role")
    ELSE IF userCount(id) > 0 /\ permanent
    THEN Thrown("Cannot permanently delete role with assigned users")
    ELSE IF permanent
    THEN Returned("Role permanently deleted", [roles EXCEPT ![id] = NoRole],
                  destroyRoleRows(userRoles, id))
    ELSE Returned("Role soft deleted", [roles EXCEPT ![id] = softDelete(@)], userRoles)

RoleService_restoreRole(id) ==
    IF ~roleFindByPk(id, FALSE) THEN Thrown("Role not found")
    ELSE IF ~roles[id].deleted THEN Returned("Role is not deleted", roles, userRoles)
    ELSE Returned("Role restored", [roles EXCEPT ![id] = restore(@)], userRoles)

\* a call of the service: the tables as it leaves them, and what it answered
RoleServiceCall(result) ==
    /\ req = NoReq
    /\ roles' = result.roles
    /\ userRoles' = result.userRoles
    /\ roleTasks' = IF result.ok
                    THEN [p \in RoleIds \X TaskIds |-> result.roles[p[1]].exists /\ roleTasks[p]]
                    ELSE roleTasks
    /\ res' = IF result.ok THEN Response(200, result.message, "")
              ELSE Failure(500, "Error", result.message, "")
    /\ UNCHANGED <<now, env, tasks, exercises, pending, users, tokens, req>>

CreateRole(name, isActive) == RoleServiceCall(RoleService_createRole(name, isActive))
RenameRole(id, name) ==
    RoleServiceCall(RoleService_updateRole(id, RoleData({"name"}, name, FALSE)))
ActivateRole(id) == RoleServiceCall(RoleService_activateRole(id))
DeactivateRole(id) == RoleServiceCall(RoleService_deactivateRole(id))
DeleteRole(id, permanent) == RoleServiceCall(RoleService_deleteRole(id, permanent))
RestoreRole(id) == RoleServiceCall(RoleService_restoreRole(id))

-----------------------------------------------------------------------------
(* Permanent deletion, handled concurrently with assignments: each handler   *)
(* between two of its awaits                                                 *)

\* what the foreign keys of the junction tables do when a referenced row is deleted
OnDelete == {"CASCADE", "NO ACTION"}

\* the junction tables have no foreign key
onDeleteForeignKey_Unconstrained(onDelete, table, cleared) ==
    [ok |-> TRUE, table |-> table]

\* DELETE of a row of users, roles or tasks: the rows that reference it are removed
\* with it, or the delete is refused; cleared is the table without those rows
onDeleteForeignKey(onDelete, table, cleared) ==
    IF table = cleared THEN [ok |-> TRUE, table |-> table]
    ELSE IF onDelete = "CASCADE" THEN [ok |-> TRUE, table |-> cleared]
    ELSE [ok |-> FALSE, table |-> table]

\* RoleTask.destroy({where: {task_id}}) and the rows of role_tasks of one role
destroyTaskRows(rt, id) == [p \in RoleIds \X TaskIds |-> p[2] # id /\ rt[p]]
roleTaskRows(rt, id) == [p \in RoleIds \X TaskIds |-> p[1] # id /\ rt[p]]

\* RoleTask.count({where: {task_id}})
roleCount(id) == Cardinality({r \in RoleIds : roleTasks[<<r, id>>]})

PermanentlyDeleted(message) == Response(200, message, "")
DeleteRefused == Failure(500, "Error", "violates foreign key constraint", "")

\* UserService.deleteUser(id, true) up to the end of await UserRole.destroy
DeleteUserRows(w, id) ==
    /\ pending[w].pc = "idle"
    /\ id \in UserIds /\ users[id].exists
    /\ userRoles' = destroyUserRows(userRoles, id)
    /\ pending' = [pending EXCEPT ![w] = [Idle EXCEPT !.pc = "destroyUser", !.userId = id]]
    /\ UNCHANGED <<now, env, tasks, roleTasks, exercises, users, roles, tokens, req, res>>

\* await user.destroy({force: true}) and the answer
ForceDestroyUser(w, onDelete) ==
    LET id == pending[w].userId
        fk == onDeleteForeignKey(onDelete, userRoles, destroyUserRows(userRoles, id))
    IN  /\ pending[w].pc = "destroyUser"
        /\ users' = IF fk.ok THEN [users EXCEPT ![id] = DeletedUser] ELSE users
        /\ userRoles' = fk.table
        /\ res' = IF fk.ok THEN PermanentlyDeleted("User permanently deleted")
                  ELSE DeleteRefused
        /\ pending' = [pending EXCEPT ![w] = Idle]
        /\ UNCHANGED <<now, env, tasks, roleTasks, exercises, roles, tokens, req>>

\* RoleService.deleteRole(id, true) up to the end of await UserRole.destroy
DeleteRoleRows(w, id) ==
    /\ pending[w].pc = "idle"
    /\ roleFindByPk(id, FALSE)
    /\ toLowerCase(roles[id].name) \notin protectedRoles
    /\ userCount(id) = 0
    /\ userRoles' = destroyRoleRows(userRoles, id)
    /\ pending' = [pending EXCEPT ![w] = [Idle EXCEPT !.pc = "destroyRole", !.roleId = id]]
    /\ UNCHANGED <<now, env, tasks, roleTasks, exercises, users, roles, tokens, req, res>>

\* await role.destroy({force: true}) and the answer
ForceDestroyRole(w, onDelete) ==
    LET id == pending[w].roleId
        fkUsers == onDeleteForeignKey(onDelete, userRoles, destroyRoleRows(userRoles, id))
        fkTasks == onDeleteForeignKey(onDelete, roleTasks, roleTaskRows(roleTasks, id))
        ok == fkUsers.ok /\ fkTasks.ok
    IN  /\ pending[w].pc = "destroyRole"
        /\ roles' = IF ok THEN [roles EXCEPT ![id] = NoRole] ELSE roles
        /\ userRoles' = IF ok THEN fkUsers.table ELSE userRoles
        /\ roleTasks' = IF ok THEN fkTasks.table ELSE roleTasks
        /\ res' = IF ok THEN PermanentlyDeleted("Role permanently deleted") ELSE DeleteRefused
        /\ pending' = [pending EXCEPT ![w] = Idle]
        /\ UNCHANGED <<now, env, tasks, exercises, users, tokens, req>>

\* Task.deleteTask(id, true) up to the end of await RoleTask.destroy
DeleteTaskRows(w, id) ==
    /\ pending[w].pc = "idle"
    /\ id \in TaskIds /\ tasks[id].exists /\ ~tasks[id].deleted
    /\ roleCount(id) = 0
    /\ roleTasks' = destroyTaskRows(roleTasks, id)
    /\ pending' = [pending EXCEPT ![w] = [Idle EXCEPT !.pc = "destroyTask", !.taskId = id]]
    /\ UNCHANGED <<now, env, tasks, exercises, users, roles, userRoles, tokens, req, res>>

\* await task.destroy({force: true}) and the answer
ForceDestroyTask(w, onDelete) ==
    LET id == pending[w].taskId
        fk == onDeleteForeignKey(onDelete, roleTasks, destroyTaskRows(roleTasks, id))
    IN  /\ pending[w].pc = "destroyTask"
        /\ tasks' = IF fk.ok THEN [tasks EXCEPT ![id] = NoTask] ELSE tasks
        /\ roleTasks' = fk.table
        /\ res' = IF fk.ok THEN PermanentlyDeleted("Task permanently deleted")
                  ELSE DeleteRefused
        /\ pending' = [pending EXCEPT ![w] = Idle]
        /\ UNCHANGED <<now, env, exercises, users, roles, userRoles, tokens, req>>

\* TaskService.createTask
CreateTask(id, title) ==
    /\ req = NoReq
    /\ ~tasks[id].exists
    /\ title # ""
    /\ tasks' = [tasks EXCEPT ![id] = [exists |-> TRUE, deleted |-> FALSE, title |-> title]]
    /\ res' = Response(200, "Task created", "")
    /\ UNCHANGED <<now, env, roleTasks, exercises, pending, users, roles, userRoles, tokens, req>>

\* TaskService.assignToRole: a pair that is assigned is an error; task_id and role_id
\* reference tasks.id and roles.id
AssignToRole(taskId, roleId) ==
    /\ req = NoReq
    /\ IF roleTasks[<<roleId, taskId>>]
       THEN /\ res' = Failure(500, "Error", "Cette tache est deja assignee a ce role", "")
            /\ UNCHANGED roleTasks
       ELSE IF tasks[taskId].exists /\ roles[roleId].exists
       THEN /\ roleTasks' = [roleTasks EXCEPT ![<<roleId, taskId>>] = TRUE]
            /\ res' = Response(200, "Tache assignee au role avec succes", "")
       ELSE /\ res' = DeleteRefused
            /\ UNCHANGED roleTasks
    /\ UNCHANGED <<now, env, tasks, exercises, pending, users, roles, userRoles, tokens, req>>

-----------------------------------------------------------------------------
(* The services behind the administrators' routes: each returns whether it   *)
(* succeeded and the tables as it leaves them                                *)

Store == [users |-> users, roles |-> roles, userRoles |-> userRoles, tasks |-> tasks,
          roleTasks |-> roleTasks, exercises |-> exercises]
Done(store) == [ok |-> TRUE, store |-> store]
Failed == [ok |-> FALSE, store |-> Store]

\* UserService.createUser: validation, no visible user and no row with the address,
\* then User.create, whose beforeCreate hook hashes the password
UserService_createUser(body) ==
    LET email == toLowerCaseTrim(body.values.email)
        free == {u \in UserIds : ~users[u].exists}
        id == CHOOSE u \in free : TRUE
    IN  IF \/ ~({"email", "password", "name"} \subseteq body.fields)
           \/ ~isEmail(body.values.email)
           \/ Len(body.values.password) < minPasswordLength
           \/ Len(body.values.password) > maxPasswordLength
           \/ Len(body.values.name) < 2
        THEN Failed
        ELSE IF \E u \in UserIds : users[u].exists /\ users[u].email = email THEN Failed
        ELSE IF free = {} THEN Failed
        ELSE Done([Store EXCEPT !.users[id] =
                      [NoUserRow EXCEPT !.exists = TRUE, !.email = email,
                                        !.password = bcryptHash(Plain(body.values.password)),
                                        !.name = body.values.name, !.isActive = TRUE]])

\* UserService.activateUser: an active user is returned as it is; otherwise the
\* account is activated and its lock lifted
UserService_activateUser(id) ==
    IF findByPk(id) = NoUserId THEN Failed
    ELSE IF users[id].isActive THEN Done(Store)
    ELSE Done([Store EXCEPT !.users[id].isActive = TRUE,
                            !.users[id].failedLoginAttempts = 0,
                            !.users[id].lockedUntil = NoDate])

\* UserRoleService.assignRole
UserRoleService_assignRole(userId, roleId) ==
    IF ~(userId \in UserIds /\ roleId \in RoleIds) THEN Failed
    ELSE IF userRoles[<<userId, roleId>>].exists THEN Failed
    ELSE IF ~(users[userId].exists /\ roles[roleId].exists) THEN Failed
    ELSE Done([Store EXCEPT !.userRoles[<<userId, roleId>>] = Row(TRUE, NoDate)])

\* UserRoleService.revokeRole names UserRole, which it does not have in scope, and
\* TaskService.unassignFromRole names Task likewise: both throw whatever they are given
UserRoleService_revokeRole(userId, roleId) == Failed
TaskService_unassignFromRole(taskId, roleId) == Failed

\* TaskService.createTask
TaskService_createTask(body) ==
    LET free == {t \in TaskIds : ~tasks[t].exists}
        id == CHOOSE t \in free : TRUE
    IN  IF ~({"title", "description"} \subseteq body.fields) \/ body.values.title = ""
        THEN Failed
        ELSE IF free = {} THEN Failed
        ELSE Done([Store EXCEPT !.tasks[id] =
                      [exists |-> TRUE, deleted |-> FALSE, title |-> body.values.title]])

\* Task.updateTask
Task_updateTask(id, body) ==
    IF ~(id \in TaskIds /\ tasks[id].exists /\ ~tasks[id].deleted) THEN Failed
    ELSE Done([Store EXCEPT !.tasks[id].title =
                  IF "title" \in body.fields /\ body.values.title # ""
                  THEN trim(body.values.title) ELSE @])

\* Task.deleteTask: a task that has roles is not deleted permanently
Task_deleteTask(id, permanent) ==
    IF ~(id \in TaskIds /\ tasks[id].exists /\ ~tasks[id].deleted) THEN Failed
    ELSE IF roleCount(id) > 0 /\ permanent THEN Failed
    ELSE IF permanent
    THEN Done([Store EXCEPT !.tasks[id] = NoTask,
                            !.roleTasks = destroyTaskRows(roleTasks, id)])
    ELSE Done([Store EXCEPT !.tasks[id] = softDelete(@)])

\* Task.restoreTask
Task_restoreTask(id) ==
    IF ~(id \in TaskIds /\ tasks[id].exists) THEN Failed
    ELSE Done([Store EXCEPT !.tasks[id] = restore(@)])

\* TaskService.assignToRole
TaskService_assignToRole(taskId, roleId) ==
    IF ~(taskId \in TaskIds /\ roleId \in RoleIds) THEN Failed
    ELSE IF roleTasks[<<roleId, taskId>>] THEN Failed
    ELSE IF ~(tasks[taskId].exists /\ roles[roleId].exists) THEN Failed
    ELSE Done([Store EXCEPT !.roleTasks[<<roleId, taskId>>] = TRUE])

\* ExerciseService.createExercise: Exercise.create with the default status
ExerciseService_createExercise(body) ==
    LET free == {e \in ExerciseIds : ~exercises[e].exists}
        id == CHOOSE e \in free : TRUE
    IN  IF ~({"name", "start_date", "end_date"} \subseteq body.fields) \/ body.values.name = ""
        THEN Failed
        ELSE IF free = {} THEN Failed
        ELSE Done([Store EXCEPT !.exercises[id] =
                      [exists |-> TRUE, deleted |-> FALSE, name |-> body.values.name,
                       status |-> "active"]])

\* Exercise.updateExercise; activateExercise and closeExercise are updates of status
Exercise_updateExercise(id, body) ==
    IF ~(id \in ExerciseIds /\ exercises[id].exists /\ ~exercises[id].deleted) THEN Failed
    ELSE Done([Store EXCEPT
                  !.exercises[id].name = IF "name" \in body.fields /\ body.values.name # ""
                                         THEN trim(body.values.name) ELSE @,
                  !.exercises[id].status = IF "status" \in body.fields
                                           THEN body.values.status ELSE @])

Exercise_activateExercise(id) ==
    Exercise_updateExercise(id, Body({"status"}, [NoValues EXCEPT !.status = "active"]))
Exercise_closeExercise(id) ==
    Exercise_updateExercise(id, Body({"status"}, [NoValues EXCEPT !.status = "closed"]))

\* Exercise.deleteExercise; users.exercise_id of a removed exercise is set to null
Exercise_deleteExercise(id, permanent) ==
    IF ~(id \in ExerciseIds /\ exercises[id].exists /\ ~exercises[id].deleted) THEN Failed
    ELSE IF permanent
    THEN Done([Store EXCEPT !.exercises[id] = NoExerciseRow,
                            !.users = [u \in UserIds |->
                                          IF users[u].exercise_id = id
                                          THEN [users[u] EXCEPT !.exercise_id = NoExercise]
                                          ELSE users[u]]])
    ELSE Done([Store EXCEPT !.exercises[id] = softDelete(@)])

\* Exercise.restoreExercise
Exercise_restoreExercise(id) ==
    IF ~(id \in ExerciseIds /\ exercises[id].exists) THEN Failed
    ELSE Done([Store EXCEPT !.exercises[id] = restore(@)])

\* the operations of UserService and RoleService on the same terms
OfUsers(result) ==
    IF result.ok THEN Done([Store EXCEPT !.users = result.users]) ELSE Failed
OfDeleteUser(result) ==
    IF result.ok
    THEN Done([Store EXCEPT !.users = result.users, !.userRoles = result.userRoles])
    ELSE Failed
OfRoles(result) ==
    IF result.ok
    THEN Done([Store EXCEPT !.roles = result.roles, !.userRoles = result.userRoles,
                            !.roleTasks = [p \in RoleIds \X TaskIds |->
                                              result.roles[p[1]].exists /\ roleTasks[p]]])
    ELSE Failed

-----------------------------------------------------------------------------
(* Protected routes: the middlewares mounted in front of each handler *)

Routes ==
    {"GET /api/protected/hello", "PUT /api/users/:id", "PATCH /api/users/:id/deactivate",
     "GET /api/docs", "PATCH /api/users/:id/password"}

\* the routes that change users, roles, tasks and exercises and are declared with
\* requireAdmin
UserAdminRoutes ==
    {"POST /api/users", "PATCH /api/users/:id/activate", "DELETE /api/users/:id",
     "PATCH /api/users/:id/restore", "POST /api/users/:id/roles",
     "DELETE /api/users/:id/roles/:roleId"}
RoleAdminRoutes ==
    {"POST /api/roles", "PUT /api/roles/:id", "DELETE /api/roles/:id",
     "PATCH /api/roles/:id/restore", "POST /api/roles/:id/users",
     "DELETE /api/roles/:id/users/:userId", "POST /api/roles/:id/tasks",
     "DELETE /api/roles/:id/tasks/:taskId"}
TaskAdminRoutes ==
    {"POST /api/tasks", "PUT /api/tasks/:id", "DELETE /api/tasks/:id",
     "PATCH /api/tasks/:id/restore", "POST /api/tasks/:id/assign",
     "DELETE /api/tasks/:id/assign/:roleId"}
ExerciseAdminRoutes ==
    {"POST /api/exercises", "PUT /api/exercises/:id", "PATCH /api/exercises/:id/activate",
     "PATCH /api/exercises/:id/close", "DELETE /api/exercises/:id",
     "PATCH /api/exercises/:id/restore"}
AdminRoutes == UserAdminRoutes \cup RoleAdminRoutes \cup TaskAdminRoutes \cup ExerciseAdminRoutes

\* a mounted middleware; requireRole(requiredRoles) carries its argument
Mw(name) == [name |-> name, requiredRoles |-> {}]
RequireRoleMw(requiredRoles) == [name |-> "requireRole", requiredRoles |-> requiredRoles]
RequireAdminMw == RequireRoleMw(AdminRoles)

\* the greeting is mounted without the token check
Chain_OpenGreeting(route) ==
    CASE route = "GET /api/protected/hello" ->
            <<Mw("handler")>>
      [] route = "PUT /api/users/:id" ->
            <<Mw("verifyJwtToken"), Mw("verifyJwtToken"), Mw("canModifyUser"),
              Mw("preventSelfPrivilegeEscalation"), Mw("handler")>>
      [] route = "PATCH /api/users/:id/deactivate" ->
            <<Mw("verifyJwtToken"), Mw("verifyJwtToken"), RequireAdminMw, Mw("handler")>>
      [] route = "GET /api/docs" ->
            <<Mw("verifySwaggerToken"), Mw("handler")>>
      [] route = "PATCH /api/users/:id/password" ->
            <<Mw("verifyJwtToken"), Mw("verifyJwtToken"), Mw("canModifyUser"),
              Mw("handler")>>
      [] route \in AdminRoutes ->
            <<Mw("verifyJwtToken"), Mw("verifyJwtToken"), RequireAdminMw, Mw("handler")>>

\* PATCH /api/roles/:id/restore is declared without requireAdmin
Chain_OpenRestore(route) ==
    CASE route = "GET /api/protected/hello" ->
            <<Mw("verifyJwtToken"), Mw("handler")>>
      [] route = "PUT /api/users/:id" ->
            <<Mw("verifyJwtToken"), Mw("verifyJwtToken"), Mw("canModifyUser"),
              Mw("preventSelfPrivilegeEscalation"), Mw("handler")>>
      [] route = "PATCH /api/users/:id/deactivate" ->
            <<Mw("verifyJwtToken"), Mw("verifyJwtToken"), RequireAdminMw, Mw("handler")>>
      [] route = "GET /api/docs" ->
            <<Mw("verifySwaggerToken"), Mw("handler")>>
      [] route = "PATCH /api/users/:id/password" ->
            <<Mw("verifyJwtToken"), Mw("verifyJwtToken"), Mw("canModifyUser"),
              Mw("handler")>>
      [] route = "PATCH /api/roles/:id/restore" ->
            <<Mw("verifyJwtToken"), Mw("verifyJwtToken"), Mw("handler")>>
      [] route \in AdminRoutes ->
            <<Mw("verifyJwtToken"), Mw("verifyJwtToken"), RequireAdminMw, Mw("handler")>>

Chain(route) ==
    CASE route = "GET /api/protected/hello" ->
            <<Mw("verifyJwtToken"), Mw("handler")>>
      [] route = "PUT /api/users/:id" ->
            <<Mw("verifyJwtToken"), Mw("verifyJwtToken"), Mw("canModifyUser"),
              Mw("preventSelfPrivilegeEscalation"), Mw("handler")>>
      [] route = "PATCH /api/users/:id/deactivate" ->
            <<Mw("verifyJwtToken"), Mw("verifyJwtToken"), RequireAdminMw, Mw("handler")>>
      [] route = "GET /api/docs" ->
            <<Mw("verifySwaggerToken"), Mw("handler")>>
      [] route = "PATCH /api/users/:id/password" ->
            <<Mw("verifyJwtToken"), Mw("verifyJwtToken"), Mw("canModifyUser"),
              Mw("handler")>>
      [] route \in AdminRoutes ->
            <<Mw("verifyJwtToken"), Mw("verifyJwtToken"), RequireAdminMw, Mw("handler")>>

\* a request reaches the server
Receive(route, authorization, id, body) ==
    /\ req = NoReq
    /\ req' = [NoReq EXCEPT !.route = route, !.chain = Chain(route),
                            !.authorization = authorization,
                            !.id = id, !.body = body]
    /\ res' = NoRes
    /\ UNCHANGED <<now, env, tasks, roleTasks, exercises, pending, users, roles, userRoles, tokens>>

\* a request on one of the administrators' routes
ReceiveAdmin(route, authorization, id, param, permanent, body) ==
    /\ req = NoReq
    /\ route \in AdminRoutes
    /\ req' = [NoReq EXCEPT !.route = route, !.chain = Chain(route),
                            !.authorization = authorization,
                            !.id = id, !.param = param, !.permanent = permanent,
                            !.body = body]
    /\ res' = NoRes
    /\ UNCHANGED <<now, env, tasks, roleTasks, exercises, pending, users, roles, userRoles, tokens>>

\* the middleware at the head of the chain runs
Run(name, out) ==
    /\ req.chain # <<>>
    /\ Head(req.chain).name = name
    /\ req' = IF out.next THEN [out.req EXCEPT !.chain = Tail(@)] ELSE NoReq
    /\ res' = IF out.res # NoRes THEN out.res ELSE res
    /\ UNCHANGED <<now, env, tasks, roleTasks, exercises, pending, users, roles, userRoles, tokens>>

VerifyJwtToken == Run("verifyJwtToken", verifyJwtToken(req))
VerifySwaggerToken == Run("verifySwaggerToken", verifySwaggerToken(req))
RequireRole == Run("requireRole", requireRole(Head(req.chain).requiredRoles, req))
CanModifyUser == Run("canModifyUser", canModifyUser(req))
PreventSelfPrivilegeEscalation ==
    Run("preventSelfPrivilegeEscalation", preventSelfPrivilegeEscalation(req))

\* the route's handler runs and answers
Handler ==
    /\ req.chain # <<>>
    /\ Head(req.chain).name = "handler"
    /\ req.route \in Routes
    /\ req' = NoReq
    /\ UNCHANGED <<now, env, tasks, roleTasks, exercises, pending, roles, userRoles, tokens>>
    /\ CASE req.route = "GET /api/protected/hello" ->
              /\ res' = Response(200, "Hello World!", "")
              /\ UNCHANGED users
         [] req.route = "PUT /api/users/:id" ->
              LET result == UserService_updateUser(req.id, req.body, FALSE) IN
              /\ users' = result.users
              /\ res' = IF result.ok THEN Response(200, "User updated successfully", "")
                        ELSE Response(500, "An error occurred while updating the user", "")
         [] req.route = "PATCH /api/users/:id/password" ->
              IF ~hasOwnProperty(req.body, "newPassword") \/ req.body.values.newPassword = ""
              THEN /\ res' = Failure(400, "Missing required field",
                                     "New password is required", "")
                   /\ UNCHANGED users
              ELSE LET result == UserService_changePassword(req.id, req.body.values.newPassword)
                   IN  /\ users' = result.users
                       /\ res' = IF result.ok
                                 THEN Response(200, "Password changed successfully", "")
                                 ELSE Response(500, "An error occurred while changing the password", "")
         [] req.route = "PATCH /api/users/:id/deactivate" ->
              LET result == deactivateUser(req.id) IN
              /\ users' = result.users
              /\ res' = IF result.ok THEN Response(200, "User deactivated successfully", "")
                        ELSE Response(500, "An error occurred while deactivating the user", "")
         [] req.route = "GET /api/docs" ->
              /\ res' = Response(200, "Swagger UI", "")
              /\ UNCHANGED users

\* what the handler of an administrators' route calls
AdminService(r) ==
    CASE r.route = "POST /api/users" -> UserService_createUser(r.body)
      [] r.route = "PATCH /api/users/:id/activate" -> UserService_activateUser(r.id)
      [] r.route = "DELETE /api/users/:id" ->
            OfDeleteUser(UserService_deleteUser(r.id, r.permanent))
      [] r.route = "PATCH /api/users/:id/restore" -> OfUsers(UserService_restoreUser(r.id))
      [] r.route = "POST /api/users/:id/roles" -> UserRoleService_assignRole(r.id, r.param)
      [] r.route = "DELETE /api/users/:id/roles/:roleId" ->
            UserRoleService_revokeRole(r.id, r.param)
      [] r.route = "POST /api/roles" ->
            OfRoles(RoleService_createRole(r.body.values.name, TRUE))
      [] r.route = "PUT /api/roles/:id" ->
            IF r.id \in RoleIds
            THEN OfRoles(RoleService_updateRole(r.id,
                            RoleData(r.body.fields \cap {"name", "isActive"},
                                     r.body.values.name, r.body.values.isActive)))
            ELSE Failed
      [] r.route = "DELETE /api/roles/:id" ->
            OfRoles(RoleService_deleteRole(r.id, r.permanent))
      [] r.route = "PATCH /api/roles/:id/restore" -> OfRoles(RoleService_restoreRole(r.id))
      [] r.route = "POST /api/roles/:id/users" -> UserRoleService_assignRole(r.param, r.id)
      [] r.route = "DELETE /api/roles/:id/users/:userId" ->
            UserRoleService_revokeRole(r.param, r.id)
      [] r.route = "POST /api/roles/:id/tasks" -> TaskService_assignToRole(r.param, r.id)
      [] r.route = "DELETE /api/roles/:id/tasks/:taskId" ->
            TaskService_unassignFromRole(r.param, r.id)
      [] r.route = "POST /api/tasks" -> TaskService_createTask(r.body)
      [] r.route = "PUT /api/tasks/:id" -> Task_updateTask(r.id, r.body)
      [] r.route = "DELETE /api/tasks/:id" -> Task_deleteTask(r.id, r.permanent)
      [] r.route = "PATCH /api/tasks/:id/restore" -> Task_restoreTask(r.id)
      [] r.route = "POST /api/tasks/:id/assign" -> TaskService_assignToRole(r.id, r.param)
      [] r.route = "DELETE /api/tasks/:id/assign/:roleId" ->
            TaskService_unassignFromRole(r.id, r.param)
      [] r.route = "POST /api/exercises" -> ExerciseService_createExercise(r.body)
      [] r.route = "PUT /api/exercises/:id" -> Exercise_updateExercise(r.id, r.body)
      [] r.route = "PATCH /api/exercises/:id/activate" -> Exercise_activateExercise(r.id)
      [] r.route = "PATCH /api/exercises/:id/close" -> Exercise_closeExercise(r.id)
      [] r.route = "DELETE /api/exercises/:id" -> Exercise_deleteExercise(r.id, r.permanent)
      [] r.route = "PATCH /api/exercises/:id/restore" -> Exercise_restoreExercise(r.id)

\* the error answers of these handlers: 400, 404 or 500 by the message of the error
AdminErrorStatus == {400, 404, 500}

\* the handler of an administrators' route
AdminHandler ==
    LET result == AdminService(req) IN
    /\ req.chain # <<>>
    /\ Head(req.chain).name = "handler"
    /\ req.route \in AdminRoutes
    /\ req' = NoReq
    /\ users' = result.store.users
    /\ roles' = result.store.roles
    /\ userRoles' = result.store.userRoles
    /\ tasks' = result.store.tasks
    /\ roleTasks' = result.store.roleTasks
    /\ exercises' = result.store.exercises
    /\ IF result.ok
       THEN res' = Response(200, req.route, "")
       ELSE \E status \in AdminErrorStatus : res' = Failure(status, "Error", req.route, "")
    /\ UNCHANGED <<now, env, pending, tokens>>

\* a client forgets a token
DiscardToken(token) ==
    /\ req = NoReq
    /\ token \in tokens
    /\ tokens' = tokens \ {token}
    /\ UNCHANGED <<now, env, tasks, roleTasks, exercises, pending, users, roles, userRoles, req, res>>

-----------------------------------------------------------------------------
(* The clock *)

Tick ==
    /\ req = NoReq
    /\ now + TickStep <= MaxTime
    /\ now' = now + TickStep
    /\ UNCHANGED <<env, tasks, roleTasks, exercises, pending, users, roles, userRoles, tokens, req, res>>

\* a day passes: every lock set and every token issued so far has run out
DayPasses ==
    /\ req = NoReq
    /\ now <= MaxTime
    /\ now' = now + expiresIn
    /\ UNCHANGED <<env, tasks, roleTasks, exercises, pending, users, roles, userRoles, tokens, req, res>>

-----------------------------------------------------------------------------
(* Inputs *)

\* the login requests of the model: <<email, password>>
LoginInputs ==
    {<<"admin@cyberx.com", "admin123">>,
     <<"user@cyberx.com", "user123">>,
     <<"user@cyberx.com", "wrongpassword">>,
     <<"user@cyberx.com", "short">>,
     <<"User@CyberX.com", "user123">>,
     <<"nobody@cyberx.com", "user123">>,
     <<"not-an-email", "user123">>}

\* tokens a client can present: none, the ones it holds, one signed with another key
ForgedToken == [userId |-> "u2", email |-> "user@cyberx.com", name |-> "Regular User",
                roles |-> {"admin"}, iat |-> 0, exp |-> 2 * expiresIn + MaxTime + 1,
                sig |-> "other-secret"]
\* a string that is no JWT, and the credentials of a Basic header
MalformedToken == [NoToken EXCEPT !.sig = "not.a.jwt"]
BasicCredentials == [NoToken EXCEPT !.sig = "dXNlcjpwYXNz"]
RequestTokens == tokens \cup {NoToken, ForgedToken, MalformedToken}

\* no header, "Bearer" alone or with a token, a Basic header
RequestHeaders ==
    {NoAuthorization, Authorization("Basic", BasicCredentials)}
        \cup {Bearer(token) : token \in RequestTokens}

RequestIds == SeededUserIds \cup {"u9"}

RequestBodies ==
    {EmptyBody,
     Body({"name"}, [NoValues EXCEPT !.name = "Renamed"]),
     Body({"isActive"}, [NoValues EXCEPT !.isActive = TRUE]),
     Body({"exercise_id"}, [NoValues EXCEPT !.exercise_id = "ex1"]),
     Body({"failedLoginAttempts", "lockedUntil"}, NoValues)}

\* the swaggerSecret of a body: none, the right one, another
SwaggerSecrets == {NoSecret, "swagger-access-secret", "wrong-secret"}

\* role assignments the administrators make: <<user, role, expiresAt>>
AssignInputs == {<<"u2", "r1", NoDate>>, <<"u2", "r1", TickStep>>, <<"u2", "r2", NoDate>>}

Next ==
    \/ \E in \in LoginInputs : Login(in[1], in[2])
    \/ \E route \in Routes, authorization \in RequestHeaders, id \in RequestIds,
             body \in RequestBodies :
          Receive(route, authorization, id, body)
    \/ VerifyJwtToken
    \/ VerifySwaggerToken
    \/ RequireRole
    \/ CanModifyUser
    \/ PreventSelfPrivilegeEscalation
    \/ Handler
    \/ \E swaggerSecret \in SwaggerSecrets : SwaggerToken(swaggerSecret)
    \/ \E token \in tokens : DiscardToken(token)
    \/ \E w \in Workers, in \in LoginInputs : LoginFind(w, in[1], in[2])
    \/ \E w \in Workers : LoginSave(w)
    \/ \E w \in Workers : LoginToken(w)
    \/ \E in \in AssignInputs : AssignRole(in[1], in[2], in[3])
    \/ \E w \in Workers, in \in AssignInputs : AssignFind(w, in[1], in[2], in[3])
    \/ \E w \in Workers : AssignCreate(w)
    \/ \E r \in RoleIds : RevokeRole("u2", r)
    \/ \E isActive \in BOOLEAN : UpdateRole("r3", isActive)
    \/ DeactivateUser("u2")
    \/ ActivateUser("u2")
    \/ \E permanent \in BOOLEAN : DeleteUser("u2", permanent)
    \/ RestoreUser("u2")
    \/ Tick
    \/ DayPasses

Spec == Init /\ [][Next]_vars

-----------------------------------------------------------------------------
(* Logins against the lockout policy, with the account states an            *)
(* administrator can produce                                                 *)

NextLogin ==
    \/ \E in \in LoginInputs : Login(in[1], in[2])
    \/ DeactivateUser("u2")
    \/ ActivateUser("u2")
    \/ DeleteUser("u2", FALSE)
    \/ RestoreUser("u2")
    \/ Tick
    \/ DayPasses

SpecLogin == InitApi /\ [][NextLogin]_vars

-----------------------------------------------------------------------------
(* Logins at the limits of the input validation *)

\* a password of n characters
RECURSIVE Pad(_)
Pad(n) ==
    IF n = 0 THEN ""
    ELSE IF n % 2 = 1 THEN "x" \o Pad(n - 1)
    ELSE LET half == Pad(n \div 2) IN half \o half

PasswordLengths == {5, 6, 64, 128, 129}

BoundaryLogins ==
    {<<email, Pad(n)>> : email \in {"user@cyberx.com", "nobody@cyberx.com", "not-an-email"},
                        n \in PasswordLengths}
        \cup {<<"not-an-email", "user123">>, <<"user@cyberx.com", "user123">>}

NextValidate ==
    \/ \E in \in BoundaryLogins : Login(in[1], in[2])
    \/ DeactivateUser("u2")
    \/ ActivateUser("u2")
    \/ Tick
    \/ DayPasses

SpecValidate == InitApi /\ [][NextValidate]_vars

-----------------------------------------------------------------------------
(* Logins against one account, handled concurrently *)

RaceLogins == {<<"user@cyberx.com", "wrongpassword">>, <<"user@cyberx.com", "user123">>}

NextRace ==
    \/ \E w \in Workers, in \in RaceLogins : LoginFind(w, in[1], in[2])
    \/ \E w \in Workers : LoginSave(w)
    \/ \E w \in Workers : LoginToken(w)
    \/ Tick

SpecRace == InitApi /\ [][NextRace]_vars

-----------------------------------------------------------------------------
(* Assignments and revocations of roles, handled concurrently *)

AssignRevokeInputs == {<<"u2", "r1">>, <<"u2", "r2">>, <<"u2", "r3">>}

NextAssign ==
    \/ \E w \in Workers, in \in AssignInputs : AssignFind(w, in[1], in[2], in[3])
    \/ \E w \in Workers : AssignCreate(w)
    \/ \E in \in AssignRevokeInputs : RevokeRole(in[1], in[2])
    \/ Tick

SpecAssign == InitApi /\ [][NextAssign]_vars

-----------------------------------------------------------------------------
(* Tokens against the state of the account they were issued for *)

SessionLogins == {<<"user@cyberx.com", "user123">>, <<"user@cyberx.com", "wrongpassword">>}

NextSession ==
    \/ \E in \in SessionLogins : Login(in[1], in[2])
    \/ \E authorization \in RequestHeaders :
          Receive("GET /api/protected/hello", authorization, NoUserId, EmptyBody)
    \/ VerifyJwtToken
    \/ Handler
    \/ \E token \in tokens : DiscardToken(token)
    \/ DeactivateUser("u2")
    \/ ActivateUser("u2")
    \/ \E permanent \in BOOLEAN : DeleteUser("u2", permanent)
    \/ RestoreUser("u2")
    \/ Tick
    \/ DayPasses

SpecSession == InitApi /\ [][NextSession]_vars

-----------------------------------------------------------------------------
(* Requests against the role assignments as the administrators change them *)

RolesLogins == {<<"user@cyberx.com", "user123">>}
RolesAssignInputs == {<<"u2", "r1", NoDate>>, <<"u2", "r1", TickStep>>}
RolesRevokeInputs == {<<"u2", "r1">>, <<"u2", "r3">>}
RolesRoutes == {"GET /api/protected/hello", "PATCH /api/users/:id/deactivate"}

NextRoles ==
    \/ \E in \in RolesLogins : Login(in[1], in[2])
    \/ \E route \in RolesRoutes, authorization \in RequestHeaders :
          Receive(route, authorization, "u9", EmptyBody)
    \/ VerifyJwtToken
    \/ RequireRole
    \/ Handler
    \/ \E token \in tokens : DiscardToken(token)
    \/ \E in \in RolesAssignInputs : AssignRole(in[1], in[2], in[3])
    \/ \E in \in RolesRevokeInputs : RevokeRole(in[1], in[2])
    \/ \E isActive \in BOOLEAN : UpdateRole("r3", isActive)
    \/ Tick

SpecRoles == InitApi /\ [][NextRoles]_vars

-----------------------------------------------------------------------------
(* The self-or-admin routes of the users, called by an administrator and by  *)
(* a plain user                                                              *)

ProfileLogins == {<<"admin@cyberx.com", "admin123">>, <<"user@cyberx.com", "user123">>}
ProfileRoutes == {"PUT /api/users/:id", "PATCH /api/users/:id/password"}

ProfileBodies ==
    {Body({"name"}, [NoValues EXCEPT !.name = "Renamed"]),
     Body({"isActive"}, [NoValues EXCEPT !.isActive = FALSE]),
     Body({"exercise_id"}, [NoValues EXCEPT !.exercise_id = "ex1"]),
     Body({"failedLoginAttempts", "lockedUntil"}, NoValues),
     Body({"newPassword"}, [NoValues EXCEPT !.newPassword = "newpass1"]),
     Body({"newPassword", "isActive"}, [NoValues EXCEPT !.newPassword = "newpass1"])}

NextProfile ==
    \/ \E in \in ProfileLogins : Login(in[1], in[2])
    \/ \E route \in ProfileRoutes, token \in tokens, id \in RequestIds,
             body \in ProfileBodies :
          Receive(route, Bearer(token), id, body)
    \/ VerifyJwtToken
    \/ CanModifyUser
    \/ PreventSelfPrivilegeEscalation
    \/ Handler
    \/ \E token \in tokens : DiscardToken(token)

SpecProfile == InitApi /\ [][NextProfile]_vars

-----------------------------------------------------------------------------
(* The operations of RoleService, called in any order *)

RoleNameInputs == {"editor", "ADMIN", " Root ", "x", ""}
RenamedRoleIds == {"r1", "r3"}
RoleServiceRevokeInputs == {<<"u2", "r3">>}

NextRoleService ==
    \/ \E name \in RoleNameInputs, isActive \in BOOLEAN : CreateRole(name, isActive)
    \/ \E id \in RenamedRoleIds, name \in RoleNameInputs : RenameRole(id, name)
    \/ \E id \in RenamedRoleIds, isActive \in BOOLEAN : UpdateRole(id, isActive)
    \/ \E id \in RoleIds : ActivateRole(id)
    \/ \E id \in RoleIds : DeactivateRole(id)
    \/ \E id \in RoleIds, permanent \in BOOLEAN : DeleteRole(id, permanent)
    \/ \E id \in RoleIds : RestoreRole(id)
    \/ \E in \in RoleServiceRevokeInputs : RevokeRole(in[1], in[2])

InitRoleService ==
    Init /\ env = Env("api-secret", "swagger-jwt-secret", "swagger-access-secret")

SpecRoleService == InitRoleService /\ [][NextRoleService]_vars

-----------------------------------------------------------------------------
(* The administrators' routes, called by an administrator and by a plain    *)
(* user                                                                      *)

AdminLogins == {<<"admin@cyberx.com", "admin123">>, <<"user@cyberx.com", "user123">>}

NewUser == Body({"email", "password", "name"},
                [NoValues EXCEPT !.email = "new@cyberx.com", !.password = "newpass1",
                                 !.name = "New User"])
NewRole == Body({"name"}, [NoValues EXCEPT !.name = "editor"])
NewTask == Body({"title", "description"}, [NoValues EXCEPT !.title = "Audit"])
NewExercise == Body({"name", "start_date", "end_date"}, [NoValues EXCEPT !.name = "Drill"])

\* the requests on the administrators' routes: <<route, id, param, permanent, body>>
AdminRequests ==
    {<<"POST /api/users", "", "", FALSE, NewUser>>,
     <<"PATCH /api/users/:id/activate", "u2", "", FALSE, EmptyBody>>,
     <<"DELETE /api/users/:id", "u2", "", FALSE, EmptyBody>>,
     <<"PATCH /api/users/:id/restore", "u2", "", FALSE, EmptyBody>>,
     <<"POST /api/users/:id/roles", "u2", "r1", FALSE, EmptyBody>>,
     <<"DELETE /api/users/:id/roles/:roleId", "u2", "r3", FALSE, EmptyBody>>,
     <<"POST /api/roles", "", "", FALSE, NewRole>>,
     <<"PUT /api/roles/:id", "r4", "", FALSE,
       Body({"isActive"}, [NoValues EXCEPT !.isActive = FALSE])>>,
     <<"DELETE /api/roles/:id", "r4", "", FALSE, EmptyBody>>,
     <<"PATCH /api/roles/:id/restore", "r4", "", FALSE, EmptyBody>>,
     <<"POST /api/roles/:id/users", "r4", "u2", FALSE, EmptyBody>>,
     <<"DELETE /api/roles/:id/users/:userId", "r3", "u2", FALSE, EmptyBody>>,
     <<"POST /api/roles/:id/tasks", "r4", "t1", FALSE, EmptyBody>>,
     <<"DELETE /api/roles/:id/tasks/:taskId", "r4", "t1", FALSE, EmptyBody>>,
     <<"POST /api/tasks", "", "", FALSE, NewTask>>,
     <<"PUT /api/tasks/:id", "t1", "", FALSE,
       Body({"title"}, [NoValues EXCEPT !.title = "Review"])>>,
     <<"DELETE /api/tasks/:id", "t1", "", FALSE, EmptyBody>>,
     <<"PATCH /api/tasks/:id/restore", "t1", "", FALSE, EmptyBody>>,
     <<"POST /api/tasks/:id/assign", "t1", "r3", FALSE, EmptyBody>>,
     <<"DELETE /api/tasks/:id/assign/:roleId", "t1", "r3", FALSE, EmptyBody>>,
     <<"POST /api/exercises", "", "", FALSE, NewExercise>>,
     <<"PUT /api/exercises/:id", "ex1", "", FALSE,
       Body({"name"}, [NoValues EXCEPT !.name = "Exam"])>>,
     <<"PATCH /api/exercises/:id/activate", "ex1", "", FALSE, EmptyBody>>,
     <<"PATCH /api/exercises/:id/close", "ex1", "", FALSE, EmptyBody>>,
     <<"DELETE /api/exercises/:id", "ex1", "", TRUE, EmptyBody>>,
     <<"PATCH /api/exercises/:id/restore", "ex1", "", FALSE, EmptyBody>>}

\* the tables a router works on
RouterTables(route) ==
    CASE route \in UserAdminRoutes \cup {"PATCH /api/users/:id/deactivate"} ->
            {"users", "userRoles"}
      [] route \in RoleAdminRoutes -> {"roles", "userRoles", "roleTasks", "tasks"}
      [] route \in TaskAdminRoutes -> {"tasks", "roleTasks"}
      [] route \in ExerciseAdminRoutes -> {"exercises"}

\* the tables that are no longer as seeded (a login only stamps lastLoginAt)
ChangedTables ==
    (IF [u \in UserIds |-> [users[u] EXCEPT !.lastLoginAt = NoDate]] = SeedUsers
     THEN {} ELSE {"users"})
    \cup (IF roles = SeedRoles THEN {} ELSE {"roles"})
    \cup (IF userRoles = SeedUserRoles THEN {} ELSE {"userRoles"})
    \cup (IF \A t \in TaskIds : tasks[t] = NoTask THEN {} ELSE {"tasks"})
    \cup (IF \A p \in RoleIds \X TaskIds : ~roleTasks[p] THEN {} ELSE {"roleTasks"})
    \cup (IF \A e \in ExerciseIds : exercises[e] = NoExerciseRow THEN {} ELSE {"exercises"})

\* administrators work on one router at a time; other principals call any route
\* at any time
Admitted(route, token) ==
    \/ ChangedTables \subseteq RouterTables(route)
    \/ ~(token.userId \in UserIds /\ isAdminRoles(currentRoleNames(token.userId)))

NextAdmin ==
    \/ \E in \in AdminLogins : Login(in[1], in[2])
    \/ \E in \in AdminRequests, token \in tokens :
          /\ Admitted(in[1], token)
          /\ ReceiveAdmin(in[1], Bearer(token), in[2], in[3], in[4], in[5])
    \/ \E token \in tokens :
          /\ Admitted("PATCH /api/users/:id/deactivate", token)
          /\ Receive("PATCH /api/users/:id/deactivate", Bearer(token), "u2", EmptyBody)
    \/ VerifyJwtToken
    \/ RequireRole
    \/ Handler
    \/ AdminHandler
    \/ \E token \in tokens : DiscardToken(token)

SpecAdmin == InitRoleService /\ [][NextAdmin]_vars

-----------------------------------------------------------------------------
(* Requests through the four middlewares of the API, each run to its end *)

TerminalLogins == {<<"admin@cyberx.com", "admin123">>, <<"user@cyberx.com", "user123">>}
TerminalRoutes == {"PUT /api/users/:id", "PATCH /api/users/:id/deactivate"}
TerminalBodies ==
    {Body({"name"}, [NoValues EXCEPT !.name = "Renamed"]),
     Body({"isActive"}, [NoValues EXCEPT !.isActive = FALSE])}

NextTerminal ==
    \/ \E in \in TerminalLogins : Login(in[1], in[2])
    \/ \E route \in TerminalRoutes, authorization \in RequestHeaders, id \in SeededUserIds,
             body \in TerminalBodies :
          Receive(route, authorization, id, body)
    \/ VerifyJwtToken
    \/ RequireRole
    \/ CanModifyUser
    \/ PreventSelfPrivilegeEscalation
    \/ Handler
    \/ \E token \in tokens : DiscardToken(token)

\* a middleware that has been called runs to its end, and so does the handler
SpecTerminal ==
    /\ InitRoleService
    /\ [][NextTerminal]_vars
    /\ WF_vars(VerifyJwtToken)
    /\ WF_vars(RequireRole)
    /\ WF_vars(CanModifyUser)
    /\ WF_vars(PreventSelfPrivilegeEscalation)
    /\ WF_vars(Handler)

-----------------------------------------------------------------------------
(* A plain user on the self-or-admin routes, between failed logins *)

SelfLogins == {<<"user@cyberx.com", "user123">>, <<"user@cyberx.com", "wrongpassword">>}

NextSelf ==
    \/ \E in \in SelfLogins : Login(in[1], in[2])
    \/ \E route \in ProfileRoutes, token \in tokens, id \in SeededUserIds,
             body \in ProfileBodies :
          Receive(route, Bearer(token), id, body)
    \/ VerifyJwtToken
    \/ CanModifyUser
    \/ PreventSelfPrivilegeEscalation
    \/ Handler
    \/ \E token \in tokens : DiscardToken(token)

SpecSelf == InitRoleService /\ [][NextSelf]_vars

-----------------------------------------------------------------------------
(* Passwords: set at creation, changed, and verified at login *)

\* the hooks of the User model: the password given to create is hashed, and so is
\* a password that an update changes
beforeCreate(user) == [user EXCEPT !.password = bcryptHash(@)]
beforeUpdate(stored, user) ==
    IF user.password # stored.password THEN [user EXCEPT !.password = bcryptHash(@)] ELSE user

\* UserService.createUser of services/userservices.js: it hashes the password
\* itself and hands the digest to User.create, whose hook hashes what it is given
userservices_createUser(body) ==
    LET free == {u \in UserIds : ~users[u].exists}
        id == CHOOSE u \in free : TRUE
    IN  IF \/ ~({"email", "password", "name"} \subseteq body.fields)
           \/ body.values.email = "" \/ body.values.password = "" \/ body.values.name = ""
        THEN Failed
        ELSE IF \E u \in UserIds : users[u].exists /\ users[u].email = body.values.email
        THEN Failed
        ELSE IF free = {} THEN Failed
        ELSE Done([Store EXCEPT !.users[id] =
                      beforeCreate([NoUserRow EXCEPT
                                       !.exists = TRUE, !.email = body.values.email,
                                       !.password = bcryptHash(Plain(body.values.password)),
                                       !.name = body.values.name, !.isActive = TRUE])])

\* User.changePassword, which UserService.changePassword of services/userservices.js calls
User_changePassword(id, newPassword) ==
    IF findByPk(id) = NoUserId THEN Failed
    ELSE Done([Store EXCEPT !.users[id] =
                  beforeUpdate(@, [@ EXCEPT !.password = Plain(newPassword)])])

\* a service of the users is called directly
UserServiceCall(result) ==
    /\ req = NoReq
    /\ result.ok
    /\ users' = result.store.users
    /\ UNCHANGED <<now, env, tasks, roleTasks, exercises, pending, roles, userRoles, tokens, req, res>>

CreateUser(body) == UserServiceCall(userservices_createUser(body))
CreateUserValidated(body) == UserServiceCall(UserService_createUser(body))
ChangePassword(id, newPassword) ==
    UserServiceCall(OfUsers(UserService_changePassword(id, newPassword)))
ChangePasswordUnvalidated(id, newPassword) == UserServiceCall(User_changePassword(id, newPassword))
UpdateUser(id, body) == UserServiceCall(OfUsers(UserService_updateUser(id, body, TRUE)))

PasswordLogins ==
    {<<"user@cyberx.com", "user123">>, <<"user@cyberx.com", "newpass1">>,
     <<"new@cyberx.com", "newpass1">>}
PasswordUpdates ==
    {Body({"name"}, [NoValues EXCEPT !.name = "Renamed"]),
     Body({"isActive"}, [NoValues EXCEPT !.isActive = TRUE]),
     Body({"exercise_id"}, [NoValues EXCEPT !.exercise_id = "ex1"])}
PasswordUserIds == {"u2", "u3"}

NextPassword ==
    \/ CreateUser(NewUser)
    \/ CreateUserValidated(NewUser)
    \/ \E id \in PasswordUserIds : ChangePassword(id, "newpass1")
    \/ \E id \in PasswordUserIds : ChangePasswordUnvalidated(id, "newpass1")
    \/ \E id \in PasswordUserIds, body \in PasswordUpdates : UpdateUser(id, body)
    \/ \E in \in PasswordLogins : Login(in[1], in[2])
    \/ \E token \in tokens : DiscardToken(token)

SpecPassword == InitRoleService /\ [][NextPassword]_vars

-----------------------------------------------------------------------------
(* Logins and the operations of UserService on the lock, one at a time *)

\* the lock is set and the counter left as it is
UserService_lockUser_KeepCounter(id, lockDurationMinutes) ==
    IF findByPk(id) = NoUserId THEN Failed
    ELSE Done([Store EXCEPT !.users[id].lockedUntil = now + lockDurationMinutes])

\* UserService.lockUser: the counter is set to the maximum with the lock
UserService_lockUser(id, lockDurationMinutes) ==
    IF findByPk(id) = NoUserId THEN Failed
    ELSE Done([Store EXCEPT !.users[id].lockedUntil = now + lockDurationMinutes,
                            !.users[id].failedLoginAttempts = 5])

\* UserService.unlockUser
UserService_unlockUser(id) ==
    IF findByPk(id) = NoUserId THEN Failed
    ELSE Done([Store EXCEPT !.users[id].lockedUntil = NoDate,
                            !.users[id].failedLoginAttempts = 0])

\* UserService.deactivateUser: an inactive user is returned as it is
UserService_deactivateUser(id) ==
    IF findByPk(id) = NoUserId THEN Failed
    ELSE IF ~users[id].isActive THEN Done(Store)
    ELSE Done([Store EXCEPT !.users[id].isActive = FALSE])

LockUser(id, lockDurationMinutes) == UserServiceCall(UserService_lockUser(id, lockDurationMinutes))
UnlockUser(id) == UserServiceCall(UserService_unlockUser(id))
UserServiceActivate(id) == UserServiceCall(UserService_activateUser(id))
UserServiceDeactivate(id) == UserServiceCall(UserService_deactivateUser(id))

LockLogins == {<<"user@cyberx.com", "user123">>, <<"user@cyberx.com", "wrongpassword">>}
\* lockUser's default duration
lockDurationMinutes == 30

NextLock ==
    \/ \E in \in LockLogins : Login(in[1], in[2])
    \/ LockUser("u2", lockDurationMinutes)
    \/ UnlockUser("u2")
    \/ UserServiceActivate("u2")
    \/ UserServiceDeactivate("u2")
    \/ ChangePassword("u2", "user123")
    \/ Tick

SpecLock == InitApi /\ [][NextLock]_vars

-----------------------------------------------------------------------------
(* Deletion and restoration of users and roles *)

SoftDeleteRoleNames == {"editor"}
SoftDeleteUpdates == {<<"r3", FALSE>>, <<"r3", TRUE>>}

NextSoftDelete ==
    \/ \E id \in UserIds, permanent \in BOOLEAN : DeleteUser(id, permanent)
    \/ \E id \in UserIds : RestoreUser(id)
    \/ \E id \in UserIds : DeactivateUser(id)
    \/ \E id \in UserIds : ActivateUser(id)
    \/ \E id \in RoleIds, permanent \in BOOLEAN : DeleteRole(id, permanent)
    \/ \E id \in RoleIds : RestoreRole(id)
    \/ \E name \in SoftDeleteRoleNames, isActive \in BOOLEAN : CreateRole(name, isActive)
    \/ \E in \in SoftDeleteUpdates : UpdateRole(in[1], in[2])
    \/ \E in \in RoleServiceRevokeInputs : RevokeRole(in[1], in[2])

SpecSoftDelete == InitRoleService /\ [][NextSoftDelete]_vars

-----------------------------------------------------------------------------
(* Permanent deletions of users, roles and tasks against concurrent assignments *)

PermanentRoleIds == {"r3", "r4"}
PermanentAssignInputs == {<<"u2", "r3", NoDate>>, <<"u2", "r4", NoDate>>}
TaskTitles == {"Audit"}

NextPermanentDelete ==
    \/ \E w \in Workers, id \in UserIds : DeleteUserRows(w, id)
    \/ \E w \in Workers, onDelete \in OnDelete : ForceDestroyUser(w, onDelete)
    \/ \E w \in Workers, id \in PermanentRoleIds : DeleteRoleRows(w, id)
    \/ \E w \in Workers, onDelete \in OnDelete : ForceDestroyRole(w, onDelete)
    \/ \E w \in Workers, id \in TaskIds : DeleteTaskRows(w, id)
    \/ \E w \in Workers, onDelete \in OnDelete : ForceDestroyTask(w, onDelete)
    \/ \E w \in Workers, in \in PermanentAssignInputs : AssignFind(w, in[1], in[2], in[3])
    \/ \E w \in Workers : AssignCreate(w)
    \/ \E in \in RoleServiceRevokeInputs : RevokeRole(in[1], in[2])
    \/ \E name \in SoftDeleteRoleNames : CreateRole(name, TRUE)
    \/ \E id \in TaskIds, title \in TaskTitles : CreateTask(id, title)
    \/ \E id \in TaskIds, roleId \in PermanentRoleIds : AssignToRole(id, roleId)

SpecPermanentDelete == InitRoleService /\ [][NextPermanentDelete]_vars

-----------------------------------------------------------------------------
(* The documentation: its token endpoint and its guard, under every         *)
(* configuration of the secrets                                             *)

NextSwagger ==
    \/ \E in \in RolesLogins : Login(in[1], in[2])
    \/ \E swaggerSecret \in SwaggerSecrets : SwaggerToken(swaggerSecret)
    \/ \E route \in {"GET /api/docs", "GET /api/protected/hello"},
             authorization \in RequestHeaders :
          Receive(route, authorization, NoUserId, EmptyBody)
    \/ VerifySwaggerToken
    \/ VerifyJwtToken
    \/ Handler
    \/ \E token \in tokens : DiscardToken(token)
    \/ DeactivateUser("u2")
    \/ ActivateUser("u2")
    \/ DayPasses

SpecSwagger == Init /\ [][NextSwagger]_vars

-----------------------------------------------------------------------------
(* The RBAC middlewares as functions of the request: each is applied to a    *)
(* request drawn from the principals, targets and bodies below               *)

RoleNames == {"admin", "super_admin", "user"}

Principals ==
    {NoUser} \cup
    {[userId |-> u, email |-> SeedUsers[u].email, name |-> SeedUsers[u].name,
      roles |-> names, isActive |-> TRUE, exercise_id |-> NoExercise] :
        u \in SeededUserIds, names \in SUBSET RoleNames}

RbacMiddlewares ==
    {RequireAdminMw, RequireRoleMw({"user"}), RequireRoleMw({"admin", "user"}),
     Mw("canModifyUser"), Mw("preventSelfPrivilegeEscalation")}

InitRbac ==
    /\ now = 0
    /\ env = Env("api-secret", "swagger-jwt-secret", "swagger-access-secret")
    /\ users = SeedUsers
    /\ roles = SeedRoles
    /\ userRoles = SeedUserRoles
    /\ tasks = [t \in TaskIds |-> NoTask]
    /\ roleTasks = [p \in RoleIds \X TaskIds |-> FALSE]
    /\ exercises = [e \in ExerciseIds |-> NoExerciseRow]
    /\ tokens = {}
    /\ res = NoRes
    /\ pending = [w \in Workers |-> Idle]
    /\ req \in {[NoReq EXCEPT !.chain = <<m>>, !.user = principal, !.id = id, !.body = body] :
                  m \in RbacMiddlewares, principal \in Principals,
                  id \in RequestIds, body \in RequestBodies}

NextRbac ==
    \/ RequireRole
    \/ CanModifyUser
    \/ PreventSelfPrivilegeEscalation

SpecRbac == InitRbac /\ [][NextRbac]_vars

-----------------------------------------------------------------------------
(* Properties of the login *)

\* the address as the lookup sees it: lower-cased
Normalized(email) == IF email = "User@CyberX.com" THEN "user@cyberx.com" ELSE email

\* the account a login request names, as the claims speak of it
Account(email) ==
    LET found == {u \in UserIds : /\ users[u].exists /\ ~users[u].deleted
                                  /\ users[u].email = Normalized(email)}
    IN  IF found = {} THEN NoUserId ELSE CHOOSE u \in found : TRUE

WellFormed(in) == in[1] # "not-an-email" /\ Len(in[2]) \in 6..128
LockedNow(u) == users[u].lockedUntil # NoDate /\ users[u].lockedUntil > now
RightPassword(u, password) == users[u].password = [text |-> password, depth |-> 1]

\* C1: on an existing, active, not locked account every well-formed login with a
\* wrong password is answered 401 and adds exactly 1 to failedLoginAttempts; when
\* the new value is 5 or more lockedUntil becomes now + 30 minutes, so the fifth
\* failure in a row from 0 locks the account for 30 minutes
C1_WrongPasswordCountsAndLocks ==
    [][\A in \in LoginInputs :
        LET u == Account(in[1]) IN
        (/\ Login(in[1], in[2])
         /\ WellFormed(in) /\ u # NoUserId
         /\ users[u].isActive /\ ~LockedNow(u)
         /\ ~RightPassword(u, in[2]))
        => /\ res'.status = 401
           /\ users'[u].failedLoginAttempts = users[u].failedLoginAttempts + 1
           /\ IF users[u].failedLoginAttempts + 1 >= 5
              THEN users'[u].lockedUntil = now + 30
              ELSE users'[u].lockedUntil = users[u].lockedUntil
           /\ res'.token = NoToken /\ tokens' = tokens]_vars

\* the fifth failure has just been answered 401 and has locked the account for 30 minutes
C1_Witness ==
    /\ res.status = 401
    /\ users["u2"].failedLoginAttempts = 5
    /\ users["u2"].lockedUntil = now + 30

\* C2: while lockedUntil is in the future every well-formed login for the account,
\* with the right or a wrong password, is answered 423 with that lockedUntil and
\* issues no token; a login answered 200 is never for an account locked at that time
C2_LockedAccountRejected ==
    [][\A in \in LoginInputs :
        LET u == Account(in[1]) IN
        (Login(in[1], in[2]) /\ WellFormed(in) /\ u # NoUserId)
        => /\ LockedNow(u) =>
                /\ res'.status = 423
                /\ res'.lockedUntil = users[u].lockedUntil
                /\ res'.token = NoToken
                /\ tokens' = tokens
           /\ res'.status = 200 => ~LockedNow(u)]_vars

\* a locked account has just been refused, 15 minutes into its lock
C2_Witness ==
    /\ res.status = 423
    /\ res.lockedUntil = users["u2"].lockedUntil
    /\ users["u2"].lockedUntil = now + 15
    /\ users["u2"].isActive

\* C3: a login made while the account is locked, with the right or a wrong password,
\* changes neither failedLoginAttempts nor lockedUntil; no login answered 423 changes
\* a user record
C3_LockedLoginChangesNothing ==
    [][\A in \in LoginInputs :
        LET u == Account(in[1]) IN
        Login(in[1], in[2])
        => /\ (WellFormed(in) /\ u # NoUserId /\ LockedNow(u)) =>
                /\ users'[u].failedLoginAttempts = users[u].failedLoginAttempts
                /\ users'[u].lockedUntil = users[u].lockedUntil
           /\ res'.status = 423 => users' = users]_vars

\* the refused login found the counter at 6 and the lock set at the sixth failure
C3_Witness ==
    /\ res.status = 423
    /\ users["u2"].failedLoginAttempts = 6
    /\ res.lockedUntil > now

\* C4: a login answered 200 leaves the account with failedLoginAttempts = 0,
\* lockedUntil = null and lastLoginAt = the time of the login
C4_SuccessResets ==
    [][\A in \in LoginInputs :
        LET u == Account(in[1]) IN
        (Login(in[1], in[2]) /\ res'.status = 200)
        => /\ u # NoUserId
           /\ res'.token.userId = u
           /\ users'[u].failedLoginAttempts = 0
           /\ users'[u].lockedUntil = NoDate
           /\ users'[u].lastLoginAt = now]_vars

\* a login of the user has succeeded a day or more after the start and left the record reset
C4_Witness ==
    /\ res.status = 200
    /\ res.token.userId = "u2"
    /\ users["u2"].failedLoginAttempts = 0
    /\ users["u2"].lockedUntil = NoDate
    /\ users["u2"].lastLoginAt = now
    /\ now >= expiresIn

-----------------------------------------------------------------------------
(* Documentation tokens on a protected route, under every configuration of   *)
(* the secrets, the two JWT secrets being the same string included           *)

\* JWT_SWAGGER_SECRET is set to the value of JWT_SECRET
SharedSecretConfigs ==
    {Env("api-secret", "api-secret", c) : c \in {"swagger-access-secret", NoSecret}}

InitSecrets ==
    /\ now = 0
    /\ env \in EnvConfigs \cup SharedSecretConfigs
    /\ users = SeedUsers
    /\ roles = SeedRoles
    /\ userRoles = SeedUserRoles
    /\ tasks = [t \in TaskIds |-> NoTask]
    /\ roleTasks = [p \in RoleIds \X TaskIds |-> FALSE]
    /\ exercises = [e \in ExerciseIds |-> NoExerciseRow]
    /\ tokens = {}
    /\ req = NoReq
    /\ res = NoRes
    /\ pending = [w \in Workers |-> Idle]

\* the catch of verifyJwtToken for an error that jsonwebtoken did not throw
verifyJwtToken_catch(r) ==
    Send(r, Failure(500, "Internal Server Error", "Authentication service error", "AUTH_ERROR"))

\* User.findByPk with an id that is no UUID: the postgres dialect rejects the
\* query and the catch answers, where sqlite finds no row (VerifyJwtToken)
VerifyJwtTokenQueryError ==
    /\ req.chain # <<>>
    /\ bearerToken(req.authorization) # NoToken
    /\ env.JWT_SECRET # NoSecret
    /\ jwtVerify(bearerToken(req.authorization), env.JWT_SECRET) = "ok"
    /\ bearerToken(req.authorization).userId \notin UserIds
    /\ Run("verifyJwtToken", verifyJwtToken_catch(req))

NextSecrets ==
    \/ \E in \in SessionLogins : Login(in[1], in[2])
    \/ \E swaggerSecret \in SwaggerSecrets : SwaggerToken(swaggerSecret)
    \/ \E authorization \in RequestHeaders :
          Receive("GET /api/protected/hello", authorization, NoUserId, EmptyBody)
    \/ VerifyJwtToken
    \/ VerifyJwtTokenQueryError
    \/ Handler
    \/ \E token \in tokens : DiscardToken(token)
    \/ Tick
    \/ DayPasses

SpecSecrets == InitSecrets /\ [][NextSecrets]_vars

-----------------------------------------------------------------------------
(* Properties of the middlewares *)

\* the middleware named at the head of the chain takes its step
StepOf(name) == req.chain # <<>> /\ Head(req.chain).name = name /\ req' # req
NextCalled == req' # NoReq /\ req'.chain = Tail(req.chain)
Answered(status) == req' = NoReq /\ res'.status = status

ValidApiToken(token) ==
    /\ token # NoToken
    /\ env.JWT_SECRET # NoSecret
    /\ token.sig = env.JWT_SECRET
    /\ now < token.exp

StoredRoleNames(u) ==
    {roles[r].name : r \in {q \in RoleIds :
        /\ roles[q].exists /\ ~roles[q].deleted /\ roles[q].isActive
        /\ userRoles[<<u, q>>].exists /\ userRoles[<<u, q>>].isActive}}

EffectiveAdmin(u) ==
    \E r \in RoleIds :
        /\ roles[r].exists /\ ~roles[r].deleted /\ roles[r].isActive
        /\ roles[r].name \in {"admin", "super_admin"}
        /\ userRoles[<<u, r>>].exists /\ userRoles[<<u, r>>].isActive
        /\ (userRoles[<<u, r>>].expiresAt = NoDate \/ userRoles[<<u, r>>].expiresAt > now)

\* C8: a request reaches the handler of an admin-only route only if its principal
\* holds an effective assignment (active, and not expired) of admin or super_admin
C8_OnlyEffectiveAdmins ==
    (req.chain # <<>> /\ Head(req.chain).name = "handler"
        /\ req.route = "PATCH /api/users/:id/deactivate")
    => EffectiveAdmin(req.user.userId)

\* C7: requireRole(allowed) calls next iff the principal's roles contain an element
\* of allowed; otherwise it answers 403 with the required and current roles, and
\* 401 when the request carries no principal
C7_RequireRole ==
    [][StepOf("requireRole") =>
        LET allowed == Head(req.chain).requiredRoles IN
        IF req.user = NoUser
        THEN Answered(401)
        ELSE /\ NextCalled <=> (req.user.roles \cap allowed # {})
             /\ NextCalled => req' = [req EXCEPT !.chain = Tail(@)] /\ res' = res
             /\ ~NextCalled => /\ Answered(403)
                               /\ res'.required = allowed
                               /\ res'.current = req.user.roles]_vars

\* a principal holding only user was refused on an admin route, with both lists
C7_Witness ==
    /\ req = NoReq
    /\ res.status = 403 /\ res.code = "INSUFFICIENT_PERMISSIONS"
    /\ res.required = {"admin", "super_admin"}
    /\ res.current = {"user"}

ClaimRestricted == {"isActive", "exercise_id", "failedLoginAttempts", "lockedUntil"}
HoldsAdmin(principal) == "admin" \in principal.roles \/ "super_admin" \in principal.roles

\* C9: preventSelfPrivilegeEscalation answers 403 with the attempted fields iff the
\* principal is the target, holds neither admin nor super_admin and the body has a
\* restricted field; in every other case it calls next
C9_PreventSelfEscalation ==
    [][(StepOf("preventSelfPrivilegeEscalation") /\ req.user # NoUser) =>
        LET attempted == req.body.fields \cap ClaimRestricted
            refused == /\ req.user.userId = req.id
                       /\ ~HoldsAdmin(req.user)
                       /\ attempted # {}
        IN  /\ refused => Answered(403) /\ res'.attemptedFields = attempted
            /\ ~refused => NextCalled /\ res' = res]_vars

\* a non-admin was refused its own exercise_id
C9_Witness ==
    /\ req = NoReq
    /\ res.status = 403 /\ res.code = "RESTRICTED_SELF_MODIFICATION"
    /\ res.attemptedFields = {"exercise_id"}

\* C10: canModifyUser calls next iff the principal holds admin or super_admin or is
\* the target, and then req.isAdmin and req.isOwner are those two truth values;
\* otherwise it answers 403
C10_CanModifyUser ==
    [][(StepOf("canModifyUser") /\ req.user # NoUser) =>
        LET admin == HoldsAdmin(req.user)
            owner == req.user.userId = req.id
        IN  /\ NextCalled <=> (admin \/ owner)
            /\ NextCalled => req'.isAdmin = admin /\ req'.isOwner = owner
            /\ ~NextCalled => Answered(403)]_vars

\* a super_admin passed on to another user's record, flagged admin and not owner
C10_Witness ==
    /\ req.chain = <<>> /\ req.user # NoUser
    /\ req.user.roles = {"super_admin"}
    /\ req.user.userId # req.id
    /\ req.isAdmin /\ ~req.isOwner

-----------------------------------------------------------------------------
(* Properties of the token check *)

\* the request has just arrived: no middleware of its route has run yet
Arrived == req # NoReq /\ req.chain = Chain(req.route)

\* the Authorization header is absent, or is the word Bearer with nothing after it
NoBearerToken(authorization) ==
    authorization.scheme \in {"", "Bearer"} /\ authorization.credentials = NoToken

-----------------------------------------------------------------------------
(* Properties of the order of the login's checks *)

\* C13: a login evaluates validation, lookup by normalized email, lock check, active
\* check and password verification in this order and answers with the first that
\* fails: a locked and inactive account gets 423, a locked account given a wrong
\* password gets 423 and no increment
C13_ChecksInOrder ==
    [][\A in \in LoginInputs :
        Login(in[1], in[2]) =>
            LET u == Account(Normalized(in[1])) IN
            IF ~WellFormed(in)
            THEN res'.status = 400
            ELSE IF u = NoUserId
            THEN res'.status = 401 /\ res'.message = "Invalid email or password"
            ELSE IF LockedNow(u)
            THEN res'.status = 423 /\ users' = users
            ELSE IF ~users[u].isActive
            THEN res'.status = 401 /\ res'.message = "Account is inactive"
            ELSE IF ~RightPassword(u, in[2])
            THEN /\ res'.status = 401 /\ res'.message = "Invalid email or password"
                 /\ users'[u].failedLoginAttempts = users[u].failedLoginAttempts + 1
            ELSE res'.status \in {200, 500}]_vars

\* a login on an account both locked and inactive was answered 423
C13_Witness ==
    /\ res.status = 423
    /\ res.lockedUntil = users["u2"].lockedUntil
    /\ LockedNow("u2")
    /\ ~users["u2"].isActive

-----------------------------------------------------------------------------
(* Properties of the login's input validation *)

\* C14: a login whose email is not well-formed or whose password is not of 6 to 128
\* characters is answered 400 Validation Error before any lookup and changes no
\* user record; every other login passes validation: 64 characters pass, 129 do not
C14_ValidationFirst ==
    [][\A in \in BoundaryLogins :
        Login(in[1], in[2]) =>
            /\ res'.status = 400 <=> (in[1] = "not-an-email" \/ Len(in[2]) < 6 \/ Len(in[2]) > 128)
            /\ res'.status = 400 =>
                  /\ res'.error = "Validation Error"
                  /\ users' = users /\ tokens' = tokens]_vars

\* a login was refused as invalid input on an account that three wrong passwords of
\* a valid length had been counted against
C14_Witness ==
    /\ res.status = 400 /\ res.error = "Validation Error"
    /\ users["u2"].failedLoginAttempts = 3

\* C15: a login on an existing, not locked account with isActive = false is answered
\* 401 and does no lockout bookkeeping: failedLoginAttempts, lockedUntil and
\* lastLoginAt are unchanged, whether the password is right or wrong
C15_InactiveLoginChangesNothing ==
    [][\A in \in LoginInputs :
        LET u == Account(Normalized(in[1])) IN
        (/\ Login(in[1], in[2])
         /\ WellFormed(in) /\ u # NoUserId
         /\ ~LockedNow(u) /\ ~users[u].isActive)
        => /\ res'.status = 401
           /\ res'.token = NoToken
           /\ users'[u].failedLoginAttempts = users[u].failedLoginAttempts
           /\ users'[u].lockedUntil = users[u].lockedUntil
           /\ users'[u].lastLoginAt = users[u].lastLoginAt]_vars

\* an inactive account with two failures counted earlier was refused, and still has two
C15_Witness ==
    /\ res.status = 401 /\ res.message = "Account is inactive"
    /\ ~users["u2"].isActive
    /\ users["u2"].failedLoginAttempts = 2

-----------------------------------------------------------------------------
(* Properties of what the login's answers tell *)

\* C16: the answer to a login that does not succeed is the same whether or not an
\* account has the email: it is always the answer given for an unknown email
C16_NoExistenceLeak ==
    [][\A in \in LoginInputs :
        (/\ Login(in[1], in[2])
         /\ WellFormed(in)
         /\ env.JWT_SECRET # NoSecret
         /\ res'.status # 200)
        => /\ res'.status = 401
           /\ res'.error = "Authentication Failed"
           /\ res'.message = "Invalid email or password"
           /\ res'.lockedUntil = NoDate]_vars

\* the names of the roles a user holds by an effective assignment: the assignment is
\* active and not past its expiry, the role is active
EffectiveRoleNames(u) ==
    {roles[r].name : r \in {q \in RoleIds :
        /\ roles[q].exists /\ ~roles[q].deleted /\ roles[q].isActive
        /\ userRoles[<<u, q>>].exists /\ userRoles[<<u, q>>].isActive
        /\ (userRoles[<<u, q>>].expiresAt = NoDate \/ userRoles[<<u, q>>].expiresAt > now)}}

\* C17: the role names in the token of a successful login are exactly those of the
\* user's effective assignments at that time; a role revoked before the login is not
\* among them
C17_TokenRolesEffective ==
    [][\A in \in RolesLogins :
        (Login(in[1], in[2]) /\ res'.status = 200)
        => res'.token.roles = EffectiveRoleNames(Account(in[1]))]_vars

-----------------------------------------------------------------------------
(* Properties of concurrent handlers *)

\* C18: the increment of a failed login is one atomic read-modify-write of the stored
\* user: each login that passed the lock check and fails the password verification
\* raises the stored failedLoginAttempts by one, whatever other logins do meanwhile,
\* and the account is locked once the stored counter reaches 5
C18_NoLostIncrement ==
    [][\A w \in Workers :
        LET u == pending[w].userId IN
        (LoginSave(w) /\ ~RightPassword(u, pending[w].password))
        => /\ users'[u].failedLoginAttempts = users[u].failedLoginAttempts + 1
           /\ users'[u].failedLoginAttempts >= 5 => users'[u].lockedUntil = now + 30]_vars

\* C19: under every interleaving of concurrent assignments and revocations of one
\* (user, role) pair the store holds at most one row for the pair, hence never two
\* active ones: a second concurrent create is refused by the composite key
C19_OneRowPerPair ==
    \A p \in UserIds \X RoleIds : userRoles[p].copies <= 1

\* two handlers found no row for the pair; one has created it, revoked since, and
\* the other's create has just been refused
C19_Witness ==
    /\ res = UniqueConstraintError
    /\ \A w \in Workers : pending[w].pc = "idle"
    /\ userRoles[<<"u2", "r1">>].exists
    /\ ~userRoles[<<"u2", "r1">>].isActive
    /\ ~userRoles[<<"u2", "r2">>].exists

-----------------------------------------------------------------------------
(* Properties of the role assignments *)

\* C20: assigning a role whose assignment to the user exists but was revoked
\* succeeds and reactivates the row: after assign, revoke, assign the pair has
\* exactly one row, and it is active
C20_ReassignReactivates ==
    [][\A in \in RolesAssignInputs :
        LET pair == <<in[1], in[2]>> IN
        (/\ AssignRole(in[1], in[2], in[3])
         /\ userRoles[pair].exists /\ ~userRoles[pair].isActive)
        => /\ res'.status = 200
           /\ userRoles'[pair].exists /\ userRoles'[pair].isActive
           /\ userRoles'[pair].copies = 1]_vars

-----------------------------------------------------------------------------
(* Properties of the documentation access *)

\* C21: verifySwaggerToken calls next only for a token that is validly signed with
\* the documentation secret JWT_SWAGGER_SECRET and has not expired, whatever the
\* state of any account; a token signed with the API secret, such as a login
\* token, is accepted in no configuration
C21_SwaggerSecretOnly ==
    [][(StepOf("verifySwaggerToken") /\ NextCalled) =>
        LET token == bearerToken(req.authorization) IN
        /\ env.JWT_SWAGGER_SECRET # NoSecret
        /\ token.sig = env.JWT_SWAGGER_SECRET
        /\ now < token.exp]_vars

\* the swaggerSecret a step of POST /swagger/token was sent
SwaggerTokenStep(swaggerSecret) == SwaggerToken(swaggerSecret) /\ res' # res

\* C22: a route whose secret is absent from the configuration neither issues nor
\* accepts a token, and answers 500 once it needs the secret: login and
\* verifyJwtToken without JWT_SECRET, POST /swagger/token without SWAGGER_SECRET or
\* JWT_SWAGGER_SECRET, verifySwaggerToken without JWT_SWAGGER_SECRET
C22_AbsentSecretFailsLoudly ==
    [][/\ \A in \in RolesLogins :
            (Login(in[1], in[2]) /\ env.JWT_SECRET = NoSecret)
            => LET u == Account(in[1]) IN
               /\ res'.status # 200
               /\ res'.token = NoToken /\ tokens' = tokens
               /\ (/\ u # NoUserId /\ users[u].isActive /\ ~LockedNow(u)
                   /\ RightPassword(u, in[2])) => res'.status = 500
       /\ (StepOf("verifyJwtToken") /\ env.JWT_SECRET = NoSecret)
            => /\ ~NextCalled
               /\ bearerToken(req.authorization) # NoToken => Answered(500)
       /\ \A swaggerSecret \in SwaggerSecrets \ {NoSecret} :
            (/\ SwaggerTokenStep(swaggerSecret)
             /\ \/ env.SWAGGER_SECRET = NoSecret
                \/ swaggerSecret = env.SWAGGER_SECRET /\ env.JWT_SWAGGER_SECRET = NoSecret)
            => /\ res'.status = 500
               /\ res'.token = NoToken /\ tokens' = tokens
       /\ (StepOf("verifySwaggerToken") /\ env.JWT_SWAGGER_SECRET = NoSecret)
            => /\ ~NextCalled
               /\ bearerToken(req.authorization) # NoToken => Answered(500)]_vars

\* C23: POST /swagger/token answers 200 with a documentation token that expires 24
\* hours later iff the swaggerSecret of the body equals the configured
\* SWAGGER_SECRET and the signing secret is configured; a missing swaggerSecret, or
\* one that differs from the configured SWAGGER_SECRET, is answered 401 and no
\* token is issued
C23_SwaggerTokenIffSecretMatches ==
    [][\A swaggerSecret \in SwaggerSecrets :
        SwaggerTokenStep(swaggerSecret) =>
          /\ res'.status = 200 <=>
                /\ swaggerSecret # NoSecret
                /\ swaggerSecret = env.SWAGGER_SECRET
                /\ env.JWT_SWAGGER_SECRET # NoSecret
          /\ res'.status = 200 =>
                /\ res'.token.sig = env.JWT_SWAGGER_SECRET
                /\ res'.token.exp = now + 24 * 60
                /\ tokens' \subseteq tokens \cup {res'.token}
          /\ (\/ swaggerSecret = NoSecret
              \/ env.SWAGGER_SECRET # NoSecret /\ swaggerSecret # env.SWAGGER_SECRET) =>
                /\ res'.status = 401
                /\ res'.token = NoToken /\ tokens' = tokens]_vars

\* a documentation token has been issued for the right swaggerSecret
C23_Witness ==
    /\ res.status = 200
    /\ res.token.userId = "swagger-user"
    /\ res.token.sig = env.JWT_SWAGGER_SECRET
    /\ res.token \in tokens

-----------------------------------------------------------------------------
(* Properties of the self-or-admin routes *)

\* the request is made by a plain user on its own record with a restricted field
SelfEscalation ==
    /\ req.route \in ProfileRoutes
    /\ req.user # NoUser /\ ~HoldsAdmin(req.user)
    /\ req.id = req.user.userId
    /\ req.body.fields \cap ClaimRestricted # {}

\* C25: on both self-or-admin routes, PUT /users/:id and PATCH /users/:id/password,
\* a request of a principal without admin and super_admin on its own id whose body
\* has a restricted field never reaches the handler and is answered 403
C25_BothRoutesStopSelfEscalation ==
    [][SelfEscalation =>
        /\ ~StepOf("handler")
        /\ req' = NoReq => res'.status = 403]_vars

\* C26: PUT /users/:id by a principal holding admin or super_admin with a
\* restricted field in the body reaches the handler, is answered 200, and the
\* stored field of the target then has the requested value
C26_AdminUpdateTakesEffect ==
    [][(/\ StepOf("handler") /\ req.route = "PUT /api/users/:id"
        /\ HoldsAdmin(req.user)
        /\ req.id \in UserIds /\ users[req.id].exists /\ ~users[req.id].deleted) =>
        /\ res'.status = 200
        /\ "isActive" \in req.body.fields =>
              users'[req.id].isActive = req.body.values.isActive
        /\ "exercise_id" \in req.body.fields =>
              users'[req.id].exercise_id = req.body.values.exercise_id
        /\ "failedLoginAttempts" \in req.body.fields =>
              users'[req.id].failedLoginAttempts = req.body.values.failedLoginAttempts
        /\ "lockedUntil" \in req.body.fields =>
              users'[req.id].lockedUntil = req.body.values.lockedUntil]_vars

-----------------------------------------------------------------------------
(* RoleService *)

isReserved(name) == toLowerCase(trim(name)) \in reservedNames

\* C27: createRole with a name that, trimmed and lower-cased, is admin, super_admin,
\* system or root throws and creates no role, and so does updateRole when it renames
\* a role to such a name
C27_ReservedNamesRejected ==
    [][\A name \in RoleNameInputs :
          isReserved(name) =>
             /\ (\E isActive \in BOOLEAN : CreateRole(name, isActive))
                   => (res'.status # 200 /\ roles' = roles)
             /\ (\E id \in RoleIds : RenameRole(id, name))
                   => (res'.status # 200 /\ roles' = roles)]_vars

isProtected(r) ==
    /\ roles[r].exists /\ toLowerCase(roles[r].name) \in protectedRoles
    /\ roles[r].isActive /\ ~roles[r].deleted

\* C28: a role named admin or super_admin that is active and not deleted is still
\* there, active and not deleted, after any operation of the role service
C28_ProtectedRolesStay ==
    [][\A r \in RoleIds :
          isProtected(r) => (roles'[r].exists /\ roles'[r].isActive /\ ~roles'[r].deleted)]_vars

\* C29: the soft delete of a user or of a role sets the deletion marker and nothing
\* else, and the entity is no longer found by the default lookups; the restoration of
\* a deleted entity clears the marker and nothing else, so that it is found again as
\* it was before its deletion; the restoration of an entity that is not deleted
\* changes nothing
C29_SoftDeleteAndRestore ==
    [][/\ \A u \in UserIds :
            /\ DeleteUser(u, FALSE)
                  => /\ users' = [users EXCEPT ![u].deleted = TRUE]
                     /\ userRoles' = userRoles
                     /\ (findByPk(u) = NoUserId)'
                     /\ (findByEmail(users[u].email) = NoUserId)'
                     /\ ~users[u].deleted => restore(users'[u]) = users[u]
            /\ RestoreUser(u)
                  => IF users[u].deleted
                     THEN /\ users' = [users EXCEPT ![u].deleted = FALSE]
                          /\ (findByPk(u) = u)'
                     ELSE users' = users
       /\ \A r \in RoleIds :
            /\ (DeleteRole(r, FALSE) /\ res'.status = 200)
                  => /\ roles' = [roles EXCEPT ![r].deleted = TRUE]
                     /\ userRoles' = userRoles
                     /\ (~roleFindByPk(r, TRUE))'
                     /\ ~roles[r].deleted => restore(roles'[r]) = roles[r]
            /\ (RestoreRole(r) /\ res'.status = 200)
                  => IF roles[r].deleted
                     THEN /\ roles' = [roles EXCEPT ![r].deleted = FALSE]
                          /\ (roleFindByPk(r, TRUE))'
                     ELSE roles' = roles /\ res'.message = "Role is not deleted"]_vars

\* a role has been restored while a user is soft-deleted
C29_Witness ==
    /\ res.message = "Role restored"
    /\ \E u \in UserIds : users[u].exists /\ users[u].deleted
    /\ \E r \in RoleIds : roles[r].exists /\ ~roles[r].deleted /\ ~roles[r].isActive

GuardedRoutes == AdminRoutes \cup {"PATCH /api/users/:id/deactivate"}
store == <<users, roles, userRoles, tasks, roleTasks, exercises>>
isAdministrator(r) == r.user # NoUser /\ isAdminRoles(r.user.roles)

\* C24: on every mutation route of roles, tasks and exercises, on user create, delete,
\* activate, deactivate and restore, and on role assignment and revocation, a request
\* whose authenticated principal holds neither admin nor super_admin is answered 403
\* and no step of it changes the store
C24_AdminOnlyMutations ==
    [][(req.route \in GuardedRoutes /\ req' # req /\ ~isAdministrator(req))
          => /\ UNCHANGED store
             /\ Head(req.chain).name # "handler"
             /\ (req.user # NoUser /\ req' = NoReq
                    => res'.status = 403 /\ res'.code = "INSUFFICIENT_PERMISSIONS")]_vars

\* a plain user has been refused on an administrators' route after an administrator
\* has changed the store through these routes
C24_Witness ==
    /\ req = NoReq
    /\ res.status = 403
    /\ res.required = AdminRoles
    /\ res.current = {"user"}
    /\ roles["r4"].exists
    /\ roles["r4"].deleted

\* C31: the stored password is the hash of the plaintext exactly once: for every
\* account, whatever created it, changed its password or updated its other fields,
\* the password last set passes the verification of the login
C31_PasswordHashedOnce ==
    \A u \in UserIds : users[u].exists => validatePassword(users[u], users[u].password.text)

\* the middlewares of the auth core
AuthMiddlewares ==
    {"verifyJwtToken", "requireRole", "canModifyUser", "preventSelfPrivilegeEscalation"}
\* the middleware at the head of the chain sends a response and does not call next
Rejects == req' = NoReq /\ res' # NoRes /\ res'.status >= 400
\* it calls next once and sends nothing
Passes == req' # NoReq /\ req'.chain = Tail(req.chain) /\ res' = NoRes

\* C32: each of verifyJwtToken, requireRole, canModifyUser and
\* preventSelfPrivilegeEscalation either sends one response and does not call next,
\* which ends the request, or calls next once and sends no response; and every
\* request that entered the chain leaves it (nothing is retried, nothing hangs)
C32_RejectionTerminal ==
    /\ [][\A name \in AuthMiddlewares :
            StepOf(name) => (Rejects /\ ~Passes) \/ (Passes /\ ~Rejects)]_vars
    /\ (req # NoReq) ~> (req = NoReq)

\* a request was passed on by three middlewares and refused by the fourth
C32_Witness ==
    /\ req = NoReq
    /\ res.status = 403
    /\ res.code = "RESTRICTED_SELF_MODIFICATION"

\* C33: given a Bearer token that verifies, verifyJwtToken sets req.user with the
\* userId and the email of the token's principal, calls next and sends no response
C33_VerifiedTokenCallsNext ==
    [][LET token == bearerToken(req.authorization) IN
       StepOf("verifyJwtToken") /\ ValidApiToken(token)
          => /\ Passes
             /\ req'.user.userId = token.userId
             /\ req'.user.email = token.email]_vars

\* C34: no request of a principal holding neither admin nor super_admin to
\* PUT /api/users/:id or PATCH /api/users/:id/password changes that principal's own
\* isActive, exercise_id, failedLoginAttempts or lockedUntil
C34_NoSelfEscalation ==
    [][req.route \in ProfileRoutes /\ req.user # NoUser /\ ~isAdminRoles(req.user.roles)
          => LET own == req.user.userId IN
             /\ users'[own].isActive = users[own].isActive
             /\ users'[own].exercise_id = users[own].exercise_id
             /\ users'[own].failedLoginAttempts = users[own].failedLoginAttempts
             /\ users'[own].lockedUntil = users[own].lockedUntil]_vars

\* C35: while the stored lockedUntil of an account lies in the future, no login
\* for that account completes with 200, and none resets its failedLoginAttempts or
\* clears its lockedUntil, however the concurrent login handlers interleave
C35_LockHoldsUnderConcurrency ==
    [][\A u \in SeededUserIds :
          isLocked(users[u])
             => /\ ~(users[u].failedLoginAttempts # 0 /\ users'[u].failedLoginAttempts = 0)
                /\ users'[u].lockedUntil # NoDate
                /\ \A w \in Workers :
                      pending[w].pc = "findByPk" /\ pending[w].userId = u /\ pending'[w] = Idle
                         => res'.status # 200]_vars

\* C36: POST /auth/login changes the user record on the wrong-password path and on
\* the 200 path only; a login answered 400, 401 for an unknown email, 401 for an
\* inactive account, 423, or 500 for a missing JWT_SECRET leaves failedLoginAttempts,
\* lockedUntil and lastLoginAt of every account unchanged
C36_LoginWritesOnTwoPaths ==
    [][\A in \in LoginInputs :
        (/\ Login(in[1], in[2])
         /\ res'.status # 200
         /\ ~(/\ res'.status = 401
              /\ res'.message = "Invalid email or password"
              /\ WellFormed(in)
              /\ Account(Normalized(in[1])) # NoUserId))
        => \A u \in UserIds :
              /\ users'[u].failedLoginAttempts = users[u].failedLoginAttempts
              /\ users'[u].lockedUntil = users[u].lockedUntil
              /\ users'[u].lastLoginAt = users[u].lastLoginAt]_vars

\* C37: the expiry of a lock does not reset the counter: the first well-formed
\* wrong-password login on an active account whose lockedUntil has passed finds
\* failedLoginAttempts at 5 or more, adds 1 to it and sets a new lock of 30 minutes
C37_OneFailureRelocks ==
    [][\A in \in LoginInputs :
        LET u == Account(Normalized(in[1])) IN
        (/\ Login(in[1], in[2])
         /\ WellFormed(in) /\ u # NoUserId
         /\ users[u].lockedUntil # NoDate /\ ~LockedNow(u)
         /\ users[u].isActive /\ ~RightPassword(u, in[2]))
        => /\ users[u].failedLoginAttempts >= maxAttempts
           /\ res'.status = 401
           /\ users'[u].failedLoginAttempts = users[u].failedLoginAttempts + 1
           /\ users'[u].lockedUntil = now + lockTime]_vars

\* the account was locked again by the one failure after its lock had run out
C37_Witness ==
    /\ users["u2"].failedLoginAttempts = maxAttempts + 1
    /\ users["u2"].lockedUntil = now + lockTime
    /\ now >= lockTime
    /\ res.status = 401

\* C38: through logins and lockUser, unlockUser, activateUser, deactivateUser and
\* changePassword, one at a time, failedLoginAttempts is at least 0 and lockedUntil
\* is set only on an account whose failedLoginAttempts is at least 5
C38_LockImpliesCounter ==
    \A u \in UserIds :
        /\ users[u].failedLoginAttempts >= 0
        /\ users[u].lockedUntil # NoDate => users[u].failedLoginAttempts >= maxAttempts

\* lockUser has locked an account right after its successful login
C38_Witness ==
    /\ res.status = 200
    /\ users["u2"].lockedUntil = now + lockDurationMinutes
    /\ users["u2"].failedLoginAttempts = maxAttempts
    /\ users["u2"].lastLoginAt = now

\* the row of the user is in the table and carries deletedAt
SoftDeleted(u) == users[u].exists /\ users[u].deleted

\* a request on a protected route that carries the token
Carrying(token) ==
    [NoReq EXCEPT !.route = "GET /api/protected/hello",
                  !.chain = Chain("GET /api/protected/hello"),
                  !.authorization = Bearer(token)]

DocumentationToken(token) == token # NoToken /\ token.userId = "swagger-user"

====
